---- MODULE Spec2Model ----
(***************************************************************************)
(* The aggregation core of erp_system (main_app): the Schema Registry      *)
(* (TableSchema), the Record Store (TableData), the populate pipeline and  *)
(* the clear action of TableSchemaViewSet, and the record resource         *)
(* TableDataViewSet.                                                       *)
(*                                                                         *)
(* A request is served by a worker.  populate and clear_data issue several *)
(* database statements, so they take several steps and interleave with the *)
(* other workers; the generic ModelViewSet operations are one statement    *)
(* (or one transaction) each and take one step.  `store` is the committed  *)
(* content of the TableData table: what every other request can read.      *)
(*                                                                         *)
(* The producer services (user_service, product_service) push their rows   *)
(* to the populate endpoint; `db` holds their tables.  Their writing       *)
(* operations (creations, update_stock, bulk_update, the image and the     *)
(* category resources) take one step per database statement or HTTP call.  *)
(***************************************************************************)
EXTENDS Integers, Sequences, FiniteSets, TLC

\* Bounds of the model.
MaxLen == 2
MaxCalls == 2
NumSchemas == 2
MaxQty == 2
MaxImages == 4
MaxCategories == 3

Workers == 1..MaxCalls
SchemaIds == 1..NumSchemas

\* HTTP status codes used by the views.
HTTP_200_OK == 200
HTTP_201_CREATED == 201
HTTP_400_BAD_REQUEST == 400
HTTP_404_NOT_FOUND == 404
HTTP_500_INTERNAL_SERVER_ERROR == 500
HTTP_502_BAD_GATEWAY == 502
HTTP_503_SERVICE_UNAVAILABLE == 503

(***************************************************************************)
(* JSON values of a request body.  A string or a number is tagged with its *)
(* type (numbers and booleans as they are written), null is JNull, an      *)
(* object is a mapping from a set of keys, a key missing from a body is    *)
(* JAbsent.                                                                *)
(***************************************************************************)
JStr(s) == [t |-> "str", v |-> s]
JInt(n) == [t |-> "int", v |-> n]
JBool(b) == [t |-> "bool", v |-> b]
JFloat(x) == [t |-> "float", v |-> x]
JNull == [t |-> "null", v |-> ""]
JAbsent == [t |-> "absent", v |-> ""]
JObj(m) == [t |-> "obj", m |-> m]
JList(s) == [t |-> "list", items |-> s]

\* The "id" values a producer may send: a string, a number, null.
IdVals == {JStr("1"), JInt("5"), JNull}

\* The objects of a batch: with or without an "id" key, other keys carried along.
Objects ==
    {JObj([full_name |-> JStr("A B")])}
        \cup {JObj([id |-> i, full_name |-> JStr("A B")]) : i \in IdVals}

\* An element of data that is not an object.
Scalar == JInt("7")

Elements == Objects \cup {Scalar}

SeqsUpTo(S, n) == UNION {[1..k -> S] : k \in 0..n}

Range(s) == {s[i] : i \in DOMAIN s}

VARIABLES schemas, store, nextPk, nextSchema, call, db

vars == <<schemas, store, nextPk, nextSchema, call, db>>

(***************************************************************************)
(* Requests.                                                               *)
(***************************************************************************)
\* What a client may send as source_service: nothing, or a producer label.
SourceInputs == {JAbsent, JStr("user_service"), JStr("product_service")}

\* What a client may send as data: something that is no list, or a list.
DataInputs == {JStr("x")} \cup {JList(s) : s \in SeqsUpTo(Elements, MaxLen)}

Bodies == [source_service : SourceInputs, data : DataInputs]

NoBody == [source_service |-> JAbsent, data |-> JAbsent]

\* serializers.CharField(max_length=50): a non-blank string; a number is
\* accepted and rendered as text.
CharFieldValid(x) == x.t \in {"str", "int"} /\ x.v # ""

CharFieldValue(x) == x.v

\* serializers.ListField(child=serializers.DictField()): a list of objects;
\* the empty list passes the field itself (allow_empty defaults to True).
ListFieldValid(x) == x.t = "list" /\ \A i \in DOMAIN x.items : x.items[i].t = "obj"

\* validate_data without its emptiness check.
validate_data_no_empty_check(value) ==
    /\ value.t = "list"
    /\ \A i \in DOMAIN value.items : value.items[i].t = "obj"

\* PopulateTableSerializer.validate_data, run on a value the field accepted.
validate_data(value) ==
    /\ value.t = "list"
    /\ Len(value.items) # 0
    /\ \A i \in DOMAIN value.items : value.items[i].t = "obj"

\* PopulateTableSerializer(data=request.data).is_valid()
is_valid(body) ==
    /\ CharFieldValid(body.source_service)
    /\ ListFieldValid(body.data)
    /\ validate_data(body.data)

(***************************************************************************)
(* Requests to the schema resource and TableSchemaSerializer.              *)
(***************************************************************************)
\* Entries of a "fields" list: a full declaration, one without type, one
\* without name, and something that is no object.
FieldDecl == JObj([name |-> JStr("full_name"), type |-> JStr("string")])

FieldEntries ==
    {FieldDecl, JObj([name |-> JStr("email")]), JObj([type |-> JStr("string")]), Scalar}

\* What a client may send as fields_config: nothing, null, something that is
\* no object, an object without "fields", "fields" that is no list, or a
\* "fields" list of any entries (the empty list among them).
ConfigInputs ==
    {JAbsent, JNull, JStr("x"), JObj([title |-> JStr("t")]), JObj([fields |-> JStr("x")])}
        \cup {JObj([fields |-> JList(s)]) : s \in SeqsUpTo(FieldEntries, MaxLen)}

\* What a client may send as name: nothing, a blank, a name, a name with a
\* leading blank, another name.
NameInputs ==
    {JAbsent, JStr(""), JStr("employees"), JStr(" employees"), JStr("products")}

DescriptionInputs == {JAbsent, JStr(" staff")}

\* is_active, when sent, is sent as false (true is the default).
ActiveInputs == {JAbsent, JBool("false")}

SchemaBodies ==
    [name : NameInputs, description : DescriptionInputs,
     fields_config : ConfigInputs, is_active : ActiveInputs]

\* serializers.CharField trims the value (trim_whitespace defaults to True).
Strip(s) ==
    CASE s = " employees" -> "employees"
      [] s = " staff" -> "staff"
      [] OTHER -> s

\* The name field of the ModelSerializer, before its UniqueValidator: a
\* string that is not blank once trimmed.
NameFieldValid(x) == x.t = "str" /\ Strip(x.v) # ""

\* The fields_config field (serializers.JSONField, required, not null).
JSONFieldValid(x) == x.t \notin {"absent", "null"}

\* validate_fields_config without the check of the entries' keys.
validate_fields_config_no_keys(value) ==
    /\ value.t = "obj"
    /\ "fields" \in DOMAIN value.m
    /\ value.m.fields.t = "list"
    /\ \A i \in DOMAIN value.m.fields.items : value.m.fields.items[i].t = "obj"

\* TableSchemaSerializer.validate_fields_config
validate_fields_config(value) ==
    /\ value.t = "obj"
    /\ "fields" \in DOMAIN value.m
    /\ value.m.fields.t = "list"
    /\ \A i \in DOMAIN value.m.fields.items :
          LET field == value.m.fields.items[i]
          IN  field.t = "obj" /\ "name" \in DOMAIN field.m /\ "type" \in DOMAIN field.m

(***************************************************************************)
(* The tables.                                                             *)
(***************************************************************************)
\* A schema id with no row: never created, or hard-deleted.
NoRow ==
    [exists |-> FALSE, is_active |-> FALSE, name |-> "", description |-> "",
     fields_config |-> JNull]

\* The schema of the scenario: "employees", with its declared fields.
EmployeesConfig ==
    JObj([fields |-> JList(<<FieldDecl,
                             JObj([name |-> JStr("email"), type |-> JStr("string")])>>)])

\* The name given to the schema created with id s when the run does not
\* choose names.
SchemaName(s) == IF s = 1 THEN "employees" ELSE "schema_" \o ToString(s)

SchemaRow(name, description, fields_config, is_active) ==
    [exists |-> TRUE, is_active |-> is_active, name |-> name,
     description |-> description, fields_config |-> fields_config]

\* TableSchema.objects.all(), as ids.
all_schemas == {s \in SchemaIds : schemas[s].exists}

\* TableSchemaViewSet.get_queryset: the rows the schema resource works on.
get_queryset == {s \in all_schemas : schemas[s].is_active}

\* self.get_object() of TableSchemaViewSet: looked up in get_queryset.
Resolves(pk) == pk \in get_queryset

\* TableData.objects.filter(schema=schema)
filter_schema(rows, pk) == {r \in rows : r.schema = pk}

\* The source id read from a key the producers do not send.
GetIdWrongKey(entry) == IF "pk" \in DOMAIN entry.m THEN entry.m.pk ELSE JStr("")

\* entry.get('id', '')
GetId(entry) == IF "id" \in DOMAIN entry.m THEN entry.m.id ELSE JStr("")

\* What the CharField source_id writes for a value that is not null: its text.
CharPrep(x) == x.v

\* TableSchema.get_field_names: the names fields_config declares, in order.
get_field_names(pk) ==
    [i \in DOMAIN schemas[pk].fields_config.m.fields.items |->
        schemas[pk].fields_config.m.fields.items[i].m.name.v]

\* A create that stores only the keys the schema declares.
NewRowDeclaredOnly(pk, schema, entry, source_service) ==
    [id |-> pk, schema |-> schema,
     data |-> JObj([k \in DOMAIN entry.m \cap Range(get_field_names(schema)) |-> entry.m[k]]),
     source_service |-> source_service, source_id |-> CharPrep(GetId(entry))]

\* TableData.objects.create(schema=, data=entry, source_service=, source_id=)
NewRow(pk, schema, entry, source_service) ==
    [id |-> pk, schema |-> schema, data |-> entry,
     source_service |-> source_service, source_id |-> CharPrep(GetId(entry))]

\* The loop without transaction.atomic(): every INSERT commits on its own.
TxWriteAutocommit(rows, row) == rows \cup {row}

\* transaction.atomic(): a row written inside the block is not in the
\* committed table until the block exits.
TxWrite(rows, row) == rows

\* A commit that is dropped when a transaction that started later has
\* committed first.
TxCommitFirstWins(rows, entries) ==
    IF \E r \in rows : r.id > entries[1].id THEN rows ELSE rows \cup Range(entries)

\* A commit that replaces the records of the same producer and source id.
TxCommitUpsert(rows, entries) ==
    {r \in rows : \A i \in DOMAIN entries :
        <<r.schema, r.source_service, r.source_id>>
            # <<entries[i].schema, entries[i].source_service, entries[i].source_id>>}
        \cup Range(entries)

\* Leaving the block normally commits the rows written in it.
TxCommit(rows, entries) == rows \cup Range(entries)

\* An exception handler that keeps what was written before the failure.
TxRollbackKeeps(rows, entries) == rows \cup Range(entries)

\* An exception leaving the block undoes the rows written in it.
TxRollback(rows, entries) == rows \ Range(entries)

\* A worker with no request.  found records whether the addressed schema had a
\* row when the request looked it up; removed is the row count the DELETE of
\* clear_data returns (and the view drops).  For a push of a producer
\* service: net is how its HTTP call ended, details the status the
\* aggregator answered, result what sync_to_core_service returned, fault
\* whether an exception left the view uncaught.
Idle ==
    [op |-> "none", pc |-> "idle", schema |-> 0, found |-> FALSE, body |-> NoBody,
     created_entries |-> <<>>, status |-> 0, count |-> 0,
     deleted_count |-> 0, removed |-> 0, row |-> NoRow,
     service |-> "", net |-> "none", details |-> 0, result |-> FALSE,
     fault |-> FALSE, seq |-> 0, sent |-> 0, delivered |-> FALSE,
     tx |-> FALSE, queue |-> <<>>, entity |-> 0, input |-> NoBody,
     local |-> NoRow]

\* Requests are handed to the first free worker.
Free(w) == call[w].pc = "idle" /\ \A v \in Workers : v < w => call[v].pc # "idle"

\* A worker between two statements of its request.
InFlight(w) == call[w].pc \in {"tx", "counted", "valid"}

(***************************************************************************)
(* TableSchemaViewSet.populate                                             *)
(***************************************************************************)
\* Lines 42-53: get_object, then the serializer; a valid request enters the
\* atomic block.
PopulateRequest(pk, body) ==
    LET req == [Idle EXCEPT !.op = "populate", !.schema = pk, !.body = body,
                            !.found = (pk \in all_schemas)]
    IN  IF ~Resolves(pk)
        THEN [req EXCEPT !.pc = "done", !.status = HTTP_404_NOT_FOUND]
        ELSE IF ~is_valid(body)
        THEN [req EXCEPT !.pc = "done", !.status = HTTP_400_BAD_REQUEST]
        ELSE [req EXCEPT !.pc = "tx"]

\* POST /schemas/<pk>/populate/ is taken by a free worker.
PopulateBegin(w, pk, body) ==
    /\ Free(w)
    /\ call' = [call EXCEPT ![w] = PopulateRequest(pk, body)]
    /\ UNCHANGED <<schemas, store, nextPk, nextSchema, db>>

\* The entry the loop of line 59 is at.
NextEntry(c) == c.body.data.items[Len(c.created_entries) + 1]

\* Lines 59-66, one turn of the loop whose INSERT succeeds.  A null source_id
\* violates the column's NOT NULL and cannot succeed.
PopulateInsert(w) ==
    /\ call[w].pc = "tx"
    /\ Len(call[w].created_entries) < Len(call[w].body.data.items)
    /\ GetId(NextEntry(call[w])) # JNull
    /\ LET row == NewRow(nextPk, call[w].schema, NextEntry(call[w]),
                         CharFieldValue(call[w].body.source_service))
       IN  /\ store' = TxWrite(store, row)
           /\ call' = [call EXCEPT ![w].created_entries = Append(@, row)]
    /\ nextPk' = nextPk + 1
    /\ UNCHANGED <<schemas, nextSchema, db>>

\* Lines 59-66 and 75-78, one turn of the loop whose INSERT raises (any
\* storage-level failure): the block is undone and the view answers 500.
PopulateFail(w) ==
    /\ call[w].pc = "tx"
    /\ Len(call[w].created_entries) < Len(call[w].body.data.items)
    /\ store' = TxRollback(store, call[w].created_entries)
    /\ call' = [call EXCEPT ![w].pc = "done",
                            ![w].status = HTTP_500_INTERNAL_SERVER_ERROR]
    /\ UNCHANGED <<schemas, nextPk, nextSchema, db>>

\* Lines 58 and 68-78, leaving the block: the rows are committed and the view
\* answers 201, unless the schema row is gone by then (the foreign key is
\* checked when the transaction commits) and the commit raises.
PopulateCommit(w) ==
    /\ call[w].pc = "tx"
    /\ Len(call[w].created_entries) = Len(call[w].body.data.items)
    /\ IF call[w].schema \in all_schemas
       THEN /\ store' = TxCommit(store, call[w].created_entries)
            /\ call' = [call EXCEPT ![w].pc = "done",
                                    ![w].status = HTTP_201_CREATED,
                                    ![w].count = Len(call[w].created_entries)]
       ELSE /\ store' = TxRollback(store, call[w].created_entries)
            /\ call' = [call EXCEPT ![w].pc = "done",
                                    ![w].status = HTTP_500_INTERNAL_SERVER_ERROR]
    /\ UNCHANGED <<schemas, nextPk, nextSchema, db>>

(***************************************************************************)
(* TableSchemaViewSet.clear_data                                           *)
(***************************************************************************)
\* Lines 82-83: get_object, then the COUNT query.
ClearCount(w, pk) ==
    /\ Free(w)
    /\ LET req == [Idle EXCEPT !.op = "clear_data", !.schema = pk,
                               !.found = (pk \in all_schemas)]
       IN  call' = [call EXCEPT ![w] =
               IF ~Resolves(pk)
               THEN [req EXCEPT !.pc = "done", !.status = HTTP_404_NOT_FOUND]
               ELSE [req EXCEPT !.pc = "counted",
                                !.deleted_count = Cardinality(filter_schema(store, pk))]]
    /\ UNCHANGED <<schemas, store, nextPk, nextSchema, db>>

\* Lines 84-88: the DELETE statement, whose own row count is dropped, and the
\* answer built from the count of line 83.
ClearDelete(w) ==
    /\ call[w].pc = "counted"
    /\ store' = store \ filter_schema(store, call[w].schema)
    /\ call' = [call EXCEPT ![w].pc = "done", ![w].status = HTTP_200_OK,
                            ![w].removed = Cardinality(filter_schema(store, call[w].schema))]
    /\ UNCHANGED <<schemas, nextPk, nextSchema, db>>

(***************************************************************************)
(* The schema resource (ModelViewSet over get_queryset)                    *)
(***************************************************************************)
\* POST /schemas/ with a well-formed body and a fresh name: is_active is a
\* writable field of the serializer.
SchemaCreate(active) ==
    /\ nextSchema <= NumSchemas
    /\ schemas' = [schemas EXCEPT ![nextSchema] =
           SchemaRow(SchemaName(nextSchema), "", EmployeesConfig, active)]
    /\ nextSchema' = nextSchema + 1
    /\ UNCHANGED <<store, nextPk, call, db>>

\* PATCH /schemas/<pk>/ {"is_active": false} : the soft delete.
SchemaDeactivate(pk) ==
    /\ Resolves(pk)
    /\ schemas' = [schemas EXCEPT ![pk].is_active = FALSE]
    /\ UNCHANGED <<store, nextPk, nextSchema, call, db>>

\* A foreign key that leaves the records of a deleted schema in place.
on_delete_DO_NOTHING(rows, pk) == rows

\* on_delete=models.CASCADE of TableData.schema: the table once the records
\* of the deleted schema are deleted with it.
on_delete_CASCADE(rows, pk) == {r \in rows : r.schema # pk}

\* DELETE /schemas/<pk>/ : the row goes, and on_delete=CASCADE takes its records.
SchemaDestroy(pk) ==
    /\ Resolves(pk)
    /\ schemas' = [schemas EXCEPT ![pk] = NoRow]
    /\ store' = on_delete_CASCADE(store, pk)
    /\ UNCHANGED <<nextPk, nextSchema, call, db>>

\* GET /schemas/ : the listing.
SchemaList == get_queryset

(***************************************************************************)
(* create, update and partial_update of the schema resource, with the body *)
(* the client sends.  The serializer is validated (the UniqueValidator of  *)
(* name reads the table), then the row is written: two statements, with no *)
(* transaction around them.                                                *)
(***************************************************************************)
\* The UniqueValidator of name: no other row of the table has the name.
UniqueValidator(name, pk) ==
    ~\E s \in all_schemas : s # pk /\ schemas[s].name = name

\* unique=True on the column: what the database refuses at the write.
unique_violation(name, pk) ==
    \E s \in all_schemas : s # pk /\ schemas[s].name = name

\* TableSchemaSerializer(instance, data=body, partial=partial).is_valid(),
\* pk being the id of the instance (0 for a creation).
schema_is_valid(body, partial, pk) ==
    /\ IF body.name = JAbsent THEN partial
       ELSE NameFieldValid(body.name) /\ UniqueValidator(Strip(body.name.v), pk)
    /\ body.description \in {JAbsent} \cup {x \in DescriptionInputs : x.t = "str"}
    /\ IF body.fields_config = JAbsent THEN partial
       ELSE JSONFieldValid(body.fields_config)
                /\ validate_fields_config(body.fields_config)

\* A new instance before the validated data is set on it: the defaults of
\* the model's fields.
NewInstance == SchemaRow("", "", JNull, TRUE)

\* A save that resets the fields the body does not send to their defaults.
MergedResetsAbsent(instance, body) ==
    SchemaRow(IF body.name = JAbsent THEN instance.name ELSE Strip(body.name.v),
              IF body.description = JAbsent THEN "" ELSE Strip(body.description.v),
              IF body.fields_config = JAbsent THEN JNull ELSE body.fields_config,
              IF body.is_active = JAbsent THEN TRUE ELSE body.is_active.v = "true")

\* serializer.save(): the validated data set on the instance.
Merged(instance, body) ==
    SchemaRow(IF body.name = JAbsent THEN instance.name ELSE Strip(body.name.v),
              IF body.description = JAbsent THEN instance.description
              ELSE Strip(body.description.v),
              IF body.fields_config = JAbsent THEN instance.fields_config
              ELSE body.fields_config,
              IF body.is_active = JAbsent THEN instance.is_active
              ELSE body.is_active.v = "true")

\* Creations that passed validation and have not written their row yet.
PendingCreates == {v \in Workers : call[v].op = "create_schema" /\ call[v].pc = "valid"}

\* POST /schemas/ : the serializer.
create(w, body) ==
    /\ Free(w)
    /\ nextSchema + Cardinality(PendingCreates) <= NumSchemas
    /\ LET req == [Idle EXCEPT !.op = "create_schema", !.body = body]
       IN  call' = [call EXCEPT ![w] =
               IF ~schema_is_valid(body, FALSE, 0)
               THEN [req EXCEPT !.pc = "done", !.status = HTTP_400_BAD_REQUEST]
               ELSE [req EXCEPT !.pc = "valid", !.row = Merged(NewInstance, body)]]
    /\ UNCHANGED <<schemas, store, nextPk, nextSchema, db>>

\* PUT /schemas/<pk>/ (partial = FALSE) and PATCH /schemas/<pk>/ (partial =
\* TRUE): get_object, then the serializer.
update(w, pk, body, partial) ==
    /\ Free(w)
    /\ LET req == [Idle EXCEPT !.op = IF partial THEN "partial_update" ELSE "update",
                               !.schema = pk, !.body = body,
                               !.found = (pk \in all_schemas)]
       IN  call' = [call EXCEPT ![w] =
               IF ~Resolves(pk)
               THEN [req EXCEPT !.pc = "done", !.status = HTTP_404_NOT_FOUND]
               ELSE IF ~schema_is_valid(body, partial, pk)
               THEN [req EXCEPT !.pc = "done", !.status = HTTP_400_BAD_REQUEST]
               ELSE [req EXCEPT !.pc = "valid", !.row = Merged(schemas[pk], body)]]
    /\ UNCHANGED <<schemas, store, nextPk, nextSchema, db>>

\* instance.save(): the INSERT of a creation, the UPDATE of all columns of an
\* update (an INSERT again if the row is gone by then).  The unique index on
\* name refuses a name another row has taken since the validation; the view
\* does not catch that and the request ends as a server error.
SchemaSave(w) ==
    /\ call[w].pc = "valid"
    /\ LET creating == call[w].op = "create_schema"
           pk == IF creating THEN nextSchema ELSE call[w].schema
       IN  IF unique_violation(call[w].row.name, pk)
           THEN /\ call' = [call EXCEPT ![w].pc = "done",
                                        ![w].status = HTTP_500_INTERNAL_SERVER_ERROR]
                /\ UNCHANGED <<schemas, nextSchema>>
           ELSE /\ schemas' = [schemas EXCEPT ![pk] = call[w].row]
                /\ nextSchema' = IF creating THEN nextSchema + 1 ELSE nextSchema
                /\ call' = [call EXCEPT ![w].pc = "done", ![w].schema = pk,
                                        ![w].status = IF creating THEN HTTP_201_CREATED
                                                      ELSE HTTP_200_OK]
    /\ UNCHANGED <<store, nextPk, db>>

\* GET /schemas/<pk>/ : the status of retrieve.
retrieve(pk) == IF Resolves(pk) THEN HTTP_200_OK ELSE HTTP_404_NOT_FOUND

\* GET /schemas/<pk>/data/ : the status of the data action.
data(pk) == IF Resolves(pk) THEN HTTP_200_OK ELSE HTTP_404_NOT_FOUND

(***************************************************************************)
(* The record resource: TableDataViewSet is a ModelViewSet registered on   *)
(* the router, so it serves POST, PUT/PATCH and DELETE besides GET.        *)
(***************************************************************************)
\* order_by('-created_at'): the rows as a sequence, the newest first (rows are
\* numbered in the order they are created).
RECURSIVE NewestFirst(_)
NewestFirst(rows) ==
    IF rows = {} THEN <<>>
    ELSE LET r == CHOOSE x \in rows : \A y \in rows : y.id <= x.id
         IN  <<r>> \o NewestFirst(rows \ {r})

\* A record query that joins the active schemas only.
TableDataQueryActiveOnly(rows, pk) ==
    NewestFirst({r \in rows : r.schema = pk /\ pk \in get_queryset})

\* GET /data/?schema=<pk> : TableDataViewSet.get_queryset over the table rows.
TableDataQuery(rows, pk) == NewestFirst({r \in rows : r.schema = pk})

\* POST /data/ : schema is looked up among all schemas, source_id is optional.
DataCreate(w, pk, entry, source_service) ==
    /\ Free(w)
    /\ pk \in all_schemas
    /\ store' = store \cup
           {[id |-> nextPk, schema |-> pk, data |-> entry,
             source_service |-> source_service, source_id |-> ""]}
    /\ nextPk' = nextPk + 1
    /\ call' = [call EXCEPT ![w] =
           [Idle EXCEPT !.op = "create", !.schema = pk, !.found = TRUE,
                        !.pc = "done", !.status = HTTP_201_CREATED]]
    /\ UNCHANGED <<schemas, nextSchema, db>>

\* PATCH /data/<id>/ {"source_id": ...}
DataPartialUpdate(id, source_id) ==
    /\ \E r \in store :
          /\ r.id = id
          /\ r.source_id # source_id
          /\ store' = (store \ {r}) \cup {[r EXCEPT !.source_id = source_id]}
    /\ UNCHANGED <<schemas, nextPk, nextSchema, call, db>>

\* DELETE /data/<id>/
DataDestroy(id) ==
    /\ \E r \in store : r.id = id /\ store' = store \ {r}
    /\ UNCHANGED <<schemas, nextPk, nextSchema, call, db>>

StoredIds == {r.id : r \in store}

(***************************************************************************)
(* The producer services (user_service, product_service) and their push to *)
(* the aggregator.  The tables of a producer are fixed here: a push reads  *)
(* them and writes nothing.  A Decimal column holds hundredths; the labels *)
(* of the choice fields, Russian in the source, are written in Latin       *)
(* letters.                                                                *)
(***************************************************************************)
\* A Python Decimal of q hundredths; a NULL column is JNull.
Decimal(q) == [t |-> "decimal", v |-> q]

\* Truth of a nullable Decimal: None and zero are false.
Truthy(d) == d # JNull /\ d.v # 0

\* Two digits, as isoformat and a quantized Decimal write them.
Pad2(n) == IF n < 10 THEN "0" \o ToString(n) ELSE ToString(n)

\* float(Decimal) as the JSON encoder writes it: the shortest text, with at
\* least one digit after the point.
FloatText(q) ==
    ToString(q \div 100) \o "." \o
        (IF q % 10 = 0 THEN ToString((q % 100) \div 10) ELSE Pad2(q % 100))

\* float(d)
float(d) == JFloat(FloatText(d.v))

\* date.isoformat()
isoformat(d) == ToString(d.year) \o "-" \o Pad2(d.month) \o "-" \o Pad2(d.day)

\* datetime.isoformat() of an aware UTC time with no microseconds.
datetime_isoformat(d) ==
    isoformat(d) \o "T" \o Pad2(d.hour) \o ":" \o Pad2(d.minute) \o ":" \o
        Pad2(d.second) \o "+00:00"

\* A Python bool as JSON.
bool(b) == JBool(IF b THEN "true" ELSE "false")

\* get_FOO_display: the label of the code, or the code when it has none.
display(choices, code) == IF code \in DOMAIN choices THEN choices[code] ELSE code

DEPARTMENT_CHOICES ==
    [IT |-> "IT otdel", HR |-> "Otdel kadrov", MARKETING |-> "Marketing",
     SALES |-> "Prodazhi", FINANCE |-> "Finansy", LEGAL |-> "Yuridicheskiy otdel"]

POSITION_CHOICES ==
    [JUNIOR_DEV |-> "Junior razrabotchik", SENIOR_DEV |-> "Senior razrabotchik",
     TEAM_LEAD |-> "Timlid", MANAGER |-> "Menedzher", DIRECTOR |-> "Direktor",
     SPECIALIST |-> "Spetsialist", ANALYST |-> "Analitik"]

STATUS_CHOICES ==
    [ACTIVE |-> "Aktiven", INACTIVE |-> "Neaktiven",
     DISCONTINUED |-> "Snyat s proizvodstva", OUT_OF_STOCK |-> "Net v nalichii"]

\* The rows of users.User: one active with a salary, one deactivated without.
User ==
    <<[id |-> 1, username |-> "ab", email |-> "a@b.com", first_name |-> "A",
       last_name |-> "B", department |-> "IT", position |-> "SENIOR_DEV",
       salary |-> Decimal(150050),
       hire_date |-> [year |-> 2024, month |-> 1, day |-> 5], is_active |-> TRUE],
      [id |-> 2, username |-> "cd", email |-> "c@d.com", first_name |-> "C",
       last_name |-> "D", department |-> "HR", position |-> "MANAGER",
       salary |-> JNull,
       hire_date |-> [year |-> 2023, month |-> 11, day |-> 20], is_active |-> FALSE]>>

\* User.full_name
full_name(u) == u.first_name \o " " \o u.last_name

\* User.to_table_data
user_to_table_data(u) ==
    JObj([id |-> JStr(ToString(u.id)),
          full_name |-> JStr(full_name(u)),
          username |-> JStr(u.username),
          email |-> JStr(u.email),
          department |-> JStr(display(DEPARTMENT_CHOICES, u.department)),
          position |-> JStr(display(POSITION_CHOICES, u.position)),
          salary |-> IF Truthy(u.salary) THEN float(u.salary) ELSE JNull,
          hire_date |-> JStr(isoformat(u.hire_date)),
          is_active |-> bool(u.is_active)])

\* The rows of products.Category; parent 0 is no parent.
Category ==
    <<[id |-> 1, name |-> "Office", parent |-> 0],
      [id |-> 2, name |-> "Pens", parent |-> 1]>>

\* Category.get_full_path
RECURSIVE get_full_path(_)
get_full_path(c) ==
    IF c.parent # 0 THEN get_full_path(db.category[c.parent]) \o " > " \o c.name
    ELSE c.name

\* The rows of products.Product: one on sale with a cost and a price, one
\* inactive that cost nothing; supplier "" is no supplier.  weight, a column
\* of three decimals, holds a whole number of hundredths here.
Product ==
    <<[id |-> 1, name |-> "Pen", sku |-> "P-1", barcode |-> JNull, category |-> 2,
       supplier |-> "", cost_price |-> Decimal(1000), selling_price |-> Decimal(1500),
       discount_price |-> JNull, stock_quantity |-> 3, min_stock_level |-> 5,
       weight |-> JNull, dimensions |-> "", status |-> "ACTIVE", is_featured |-> FALSE,
       created_at |-> [year |-> 2024, month |-> 1, day |-> 5,
                       hour |-> 10, minute |-> 0, second |-> 7]],
      [id |-> 2, name |-> "Flyer", sku |-> "F-1", barcode |-> JStr("460"), category |-> 1,
       supplier |-> "Acme", cost_price |-> Decimal(0), selling_price |-> Decimal(250),
       discount_price |-> Decimal(200), stock_quantity |-> 0, min_stock_level |-> 0,
       weight |-> Decimal(120), dimensions |-> "A5", status |-> "INACTIVE",
       is_featured |-> TRUE,
       created_at |-> [year |-> 2024, month |-> 2, day |-> 11,
                       hour |-> 9, minute |-> 30, second |-> 0]]>>

\* round(x, 2) of the Decimal num / den * 100: to the nearest hundredth, a
\* tie to the even one.
RoundedPercent(num, den) ==
    LET q == (num * 10000) \div den
        r == (num * 10000) % den
    IN  IF 2 * r > den \/ (2 * r = den /\ q % 2 = 1) THEN q + 1 ELSE q

\* round(self.profit_margin, 2): a Decimal when cost and price are both
\* non-zero, the int 0 otherwise.
profit_margin(p) ==
    IF Truthy(p.cost_price) /\ Truthy(p.selling_price)
    THEN Decimal(RoundedPercent(p.selling_price.v - p.cost_price.v, p.selling_price.v))
    ELSE JInt("0")

\* Product.current_price
current_price(p) == IF Truthy(p.discount_price) THEN p.discount_price ELSE p.selling_price

\* Product.stock_status
stock_status(p) ==
    IF p.stock_quantity = 0 THEN "Net v nalichii"
    ELSE IF p.stock_quantity <= p.min_stock_level THEN "Zakanchivaetsya"
    ELSE "V nalichii"

\* Product.to_table_data
product_to_table_data(p) ==
    JObj([id |-> JStr(ToString(p.id)),
          name |-> JStr(p.name),
          sku |-> JStr(p.sku),
          barcode |-> IF p.barcode = JNull THEN JStr("") ELSE p.barcode,
          category |-> JStr(get_full_path(db.category[p.category])),
          supplier |-> JStr(p.supplier),
          cost_price |-> float(p.cost_price),
          selling_price |-> float(p.selling_price),
          current_price |-> float(current_price(p)),
          profit_margin |-> profit_margin(p),
          stock_quantity |-> JInt(ToString(p.stock_quantity)),
          stock_status |-> JStr(stock_status(p)),
          min_stock_level |-> JInt(ToString(p.min_stock_level)),
          weight |-> IF Truthy(p.weight) THEN float(p.weight) ELSE JNull,
          dimensions |-> JStr(p.dimensions),
          status |-> JStr(display(STATUS_CHOICES, p.status)),
          is_featured |-> bool(p.is_featured),
          created_at |-> JStr(datetime_isoformat(p.created_at))])

\* The rows of products.ProductImage: two images of the first product, one
\* of them its primary image, and one of the second.
ProductImage ==
    <<[id |-> 1, product |-> 1, is_primary |-> TRUE],
      [id |-> 2, product |-> 1, is_primary |-> FALSE],
      [id |-> 3, product |-> 2, is_primary |-> FALSE]>>

\* The databases of the producer services as a run finds them.
InitDb == [user |-> User, product |-> Product, category |-> Category,
           image |-> ProductImage]

Services == {"user_service", "product_service"}

\* The table of a service, and its to_table_data.
Entities(service) == IF service = "user_service" THEN db.user ELSE db.product

to_table_data(service, e) ==
    IF service = "user_service" THEN user_to_table_data(e) ELSE product_to_table_data(e)

\* What a client may send to sync_to_core.  schema_id: nothing, text, or a
\* number; the ids: nothing, or a list of ids, 9 being the id of no row.
SyncIdInputs ==
    {JAbsent, JList(<<JInt("1")>>), JList(<<JInt("2")>>),
     JList(<<JInt("1"), JInt("2")>>), JList(<<JInt("9")>>)}

SyncRequests ==
    [schema_id : {JAbsent, JStr("x"), JInt("0")} \cup {JInt(ToString(s)) : s \in SchemaIds},
     ids : SyncIdInputs,
     include_inactive : {JAbsent, JBool("true")}]

\* The integer a numeral stands for.
IntValue(x) == CHOOSE n \in 0..9 : ToString(n) = x.v

\* The ids of a list, as a set.
IdSet(x) == {IntValue(x.items[i]) : i \in DOMAIN x.items}

\* The ids of the rows of a service.
Existing(service) == {Entities(service)[i].id : i \in DOMAIN Entities(service)}

\* SyncToCoreSerializer(data=request.data).is_valid(): schema_id an integer
\* (at least 1 for products), the ids integers (of existing products, for
\* products).
SyncToCoreValid(service, req) ==
    /\ req.schema_id # JAbsent =>
          /\ req.schema_id.t = "int"
          /\ service = "product_service" => IntValue(req.schema_id) >= 1
    /\ req.ids # JAbsent =>
          /\ req.ids.t = "list"
          /\ service = "product_service" => IdSet(req.ids) \subseteq Existing(service)

\* validated_data.get('schema_id', ...): 1 for users, 2 for products.
DefaultSchema(service) == IF service = "user_service" THEN 1 ELSE 2

TargetSchema(service, req) ==
    IF req.schema_id = JAbsent THEN DefaultSchema(service) ELSE IntValue(req.schema_id)

\* The filter of sync_to_core: the ids asked for, if any; the active users;
\* the products on sale unless include_inactive.
Wanted(service, req, e) ==
    /\ (req.ids # JAbsent /\ req.ids.items # <<>>) => e.id \in IdSet(req.ids)
    /\ IF service = "user_service" THEN e.is_active
       ELSE req.include_inactive = JBool("true") \/ e.status = "ACTIVE"

\* The rows of a table newest first (ordering = ['-created_at']).
Newest(table) == [i \in DOMAIN table |-> table[Len(table) + 1 - i]]

Selected(service, req) ==
    SelectSeq(Newest(Entities(service)), LAMBDA e : Wanted(service, req, e))

\* The body of a push.
PushBody(service, rows) ==
    [source_service |-> JStr(service),
     data |-> JList([i \in DOMAIN rows |-> to_table_data(service, rows[i])])]

\* Whether json.dumps of the standard library writes the body: it has no
\* encoding for a Decimal and raises TypeError.
Serializable(body) ==
    \A i \in DOMAIN body.data.items : \A k \in DOMAIN body.data.items[i].m :
        body.data.items[i].m[k].t # "decimal"

\* The body as the aggregator parses it.  Where simplejson is installed,
\* requests encodes with it and a Decimal goes out as a number.
Wire(body) ==
    [source_service |-> body.source_service,
     data |-> JList([i \in DOMAIN body.data.items |->
                 JObj([k \in DOMAIN body.data.items[i].m |->
                     IF body.data.items[i].m[k].t = "decimal"
                     THEN float(body.data.items[i].m[k])
                     ELSE body.data.items[i].m[k]])])]

\* The worker of the aggregator that serves the push of producer worker w.
Remote(w) == w + 1

\* requests.post is called: the push number seq of the request goes out, as
\* the first request of that push.
StartPush(c, service, rows, schema) ==
    [c EXCEPT !.pc = "post", !.service = service, !.schema = schema,
              !.body = PushBody(service, rows), !.count = Len(rows),
              !.seq = @ + 1, !.sent = 1, !.delivered = FALSE,
              !.net = "none", !.result = FALSE, !.details = 0]

\* POST /sync_to_core/ up to the try block: the serializer, the filter, and
\* data_list.
sync_to_core(w, service, req) ==
    /\ Free(w)
    /\ LET c == [Idle EXCEPT !.op = "sync_to_core", !.service = service]
           rows == Selected(service, req)
       IN  call' = [call EXCEPT ![w] =
               IF ~SyncToCoreValid(service, req)
               THEN [c EXCEPT !.pc = "done", !.status = HTTP_400_BAD_REQUEST]
               ELSE IF rows = <<>>
               THEN [c EXCEPT !.pc = "done", !.status = HTTP_404_NOT_FOUND]
               ELSE StartPush(c, service, rows, TargetSchema(service, req))]
    /\ UNCHANGED <<schemas, store, nextPk, nextSchema, db>>

\* POST /<id>/sync_single/ up to requests.post inside sync_to_core_service:
\* get_object, then the one-record body for the schema of the service.
sync_single(w, service, id) ==
    /\ Free(w)
    /\ LET c == [Idle EXCEPT !.op = "sync_single", !.service = service, !.entity = id]
       IN  call' = [call EXCEPT ![w] =
               IF id \notin Existing(service)
               THEN [c EXCEPT !.pc = "done", !.status = HTTP_404_NOT_FOUND]
               ELSE StartPush(c, service, <<Entities(service)[id]>>,
                              DefaultSchema(service))]
    /\ UNCHANGED <<schemas, store, nextPk, nextSchema, db>>

(***************************************************************************)
(* The operations of the producers that write their database and push the  *)
(* written entity: the creation of a user and of a product, update_stock   *)
(* and bulk_update.  Rows are not deleted here.                            *)
(***************************************************************************)
\* What a client may send to POST /users/: a new user, or one whose
\* username is taken.
UserInputs ==
    {[username |-> n, email |-> n \o "@f.com", first_name |-> "E", last_name |-> "F",
      department |-> "SALES", position |-> "ANALYST", salary |-> Decimal(7000000),
      hire_date |-> [year |-> 2025, month |-> 3, day |-> 1]] : n \in {"ef", "ab"}}

\* UserCreateSerializer.is_valid(): the unique columns are free.
UserCreateValid(attrs) ==
    \A i \in DOMAIN db.user :
        db.user[i].username # attrs.username /\ db.user[i].email # attrs.email

\* User.objects.create(**validated_data): is_active takes its default.
NewUser(attrs) ==
    [id |-> Len(db.user) + 1, username |-> attrs.username, email |-> attrs.email,
     first_name |-> attrs.first_name, last_name |-> attrs.last_name,
     department |-> attrs.department, position |-> attrs.position,
     salary |-> attrs.salary, hire_date |-> attrs.hire_date, is_active |-> TRUE]

\* POST /users/ : the serializer, then UserCreateSerializer.create up to
\* requests.post: the INSERT, committed on its own, and the body of the push.
create_user(w, attrs) ==
    /\ Free(w)
    /\ LET c == [Idle EXCEPT !.op = "create_user", !.input = attrs]
       IN  IF ~UserCreateValid(attrs)
           THEN /\ call' = [call EXCEPT ![w] =
                       [c EXCEPT !.pc = "done", !.status = HTTP_400_BAD_REQUEST]]
                /\ UNCHANGED db
           ELSE /\ db' = [db EXCEPT !.user = Append(@, NewUser(attrs))]
                /\ call' = [call EXCEPT ![w] =
                       StartPush([c EXCEPT !.entity = NewUser(attrs).id], "user_service",
                                 <<NewUser(attrs)>>, DefaultSchema("user_service"))]
    /\ UNCHANGED <<schemas, store, nextPk, nextSchema>>

\* What a client may send to POST /products/: a product sold above its
\* cost, one that cost nothing, one sold at its cost, one whose sku is taken.
ProductInputs ==
    {[name |-> "Ink", sku |-> k, category |-> 2, cost_price |-> Decimal(c),
      selling_price |-> Decimal(800)] :
        k \in {"I-1", "P-1"}, c \in {0, 500, 800}}

\* ProductCreateSerializer.is_valid(): validate_sku, and the prices of
\* validate.
ProductCreateValid(attrs) ==
    /\ \A i \in DOMAIN db.product : db.product[i].sku # attrs.sku
    /\ ~(Truthy(attrs.cost_price) /\ Truthy(attrs.selling_price)
            /\ attrs.selling_price.v <= attrs.cost_price.v)

\* Product.objects.create(**validated_data): the columns not sent take
\* their defaults.
NewProduct(attrs) ==
    [id |-> Len(db.product) + 1, name |-> attrs.name, sku |-> attrs.sku,
     barcode |-> JNull, category |-> attrs.category, supplier |-> "",
     cost_price |-> attrs.cost_price, selling_price |-> attrs.selling_price,
     discount_price |-> JNull, stock_quantity |-> 0, min_stock_level |-> 0,
     weight |-> JNull, dimensions |-> "", status |-> "ACTIVE", is_featured |-> FALSE,
     created_at |-> [year |-> 2025, month |-> 3, day |-> 1,
                     hour |-> 12, minute |-> 0, second |-> 0]]

\* POST /products/ : the serializer, then ProductCreateSerializer.create up
\* to requests.post.
create_product(w, attrs) ==
    /\ Free(w)
    /\ LET c == [Idle EXCEPT !.op = "create_product", !.input = attrs]
       IN  IF ~ProductCreateValid(attrs)
           THEN /\ call' = [call EXCEPT ![w] =
                       [c EXCEPT !.pc = "done", !.status = HTTP_400_BAD_REQUEST]]
                /\ UNCHANGED db
           ELSE /\ db' = [db EXCEPT !.product = Append(@, NewProduct(attrs))]
                /\ call' = [call EXCEPT ![w] =
                       StartPush([c EXCEPT !.entity = NewProduct(attrs).id],
                                 "product_service", <<NewProduct(attrs)>>,
                                 DefaultSchema("product_service"))]
    /\ UNCHANGED <<schemas, store, nextPk, nextSchema>>

\* What a client may send to update_stock; 9 is the id of no product and -1
\* a quantity the serializer refuses.
StockRequests ==
    [product_id : {1, 9}, operation : {"SET", "ADD", "SUBTRACT"}, quantity : -1..MaxQty]

\* StockUpdateSerializer.is_valid(): validate_product_id, min_value=0, and
\* validate, which reads the stock for a SUBTRACT.
StockUpdateValid(req) ==
    /\ req.product_id \in Existing("product_service")
    /\ req.quantity >= 0
    /\ req.operation = "SUBTRACT"
          => db.product[req.product_id].stock_quantity >= req.quantity

\* Lines 219-221 of update_stock.
update_stock(w, req) ==
    /\ Free(w)
    /\ LET c == [Idle EXCEPT !.op = "update_stock", !.input = req,
                             !.entity = req.product_id]
       IN  call' = [call EXCEPT ![w] =
               IF ~StockUpdateValid(req)
               THEN [c EXCEPT !.pc = "done", !.status = HTTP_400_BAD_REQUEST]
               ELSE [c EXCEPT !.pc = "valid"]]
    /\ UNCHANGED <<schemas, store, nextPk, nextSchema, db>>

\* The stock an operation makes of the stock it read.
NewQuantity(stock, req) ==
    IF req.operation = "SET" THEN req.quantity
    ELSE IF req.operation = "ADD" THEN stock + req.quantity
    ELSE stock - req.quantity

\* A view that subtracts whatever the result.
InsufficientNever(stock, req) == FALSE

\* Lines 237-242: a SUBTRACT below zero is refused.
Insufficient(stock, req) ==
    req.operation = "SUBTRACT" /\ NewQuantity(stock, req) < 0

\* Lines 230-243: Product.objects.get reads the row, and the new stock is
\* set on the instance in memory.
StockLoad(w) ==
    /\ call[w].op = "update_stock"
    /\ call[w].pc = "valid"
    /\ LET p == db.product[call[w].entity]
       IN  call' = [call EXCEPT ![w] =
               IF Insufficient(p.stock_quantity, call[w].input)
               THEN [@ EXCEPT !.pc = "done", !.status = HTTP_400_BAD_REQUEST]
               ELSE [@ EXCEPT !.pc = "loaded",
                              !.local = [p EXCEPT !.stock_quantity =
                                  NewQuantity(p.stock_quantity, call[w].input)]]]
    /\ UNCHANGED <<schemas, store, nextPk, nextSchema, db>>

\* Lines 245-248: product.save() writes every column of the instance, and
\* sync_to_core_service sends the instance.
StockSave(w) ==
    /\ call[w].op = "update_stock"
    /\ call[w].pc = "loaded"
    /\ db' = [db EXCEPT !.product[call[w].entity] = call[w].local]
    /\ call' = [call EXCEPT ![w] =
           StartPush(call[w], "product_service", <<call[w].local>>,
                     DefaultSchema("product_service"))]
    /\ UNCHANGED <<schemas, store, nextPk, nextSchema>>

\* What a client may send to bulk_update: the ids (9 is the id of no
\* product), and the columns to set: allowed ones, one that is not allowed,
\* a price that is no number, or none.
BulkRequests ==
    [product_ids : {JList(<<>>), JList(<<JInt("1")>>), JList(<<JInt("1"), JInt("2")>>),
                    JList(<<JInt("9")>>)},
     updates : {JObj([is_featured |-> JBool("true")]),
                JObj([status |-> JStr("DISCONTINUED"), is_featured |-> JBool("true")]),
                JObj([name |-> JStr("z")]),
                JObj([selling_price |-> JStr("x")]),
                JObj(<<>>)}]

\* allowed_fields of validate_updates.
allowed_fields ==
    {"status", "is_featured", "selling_price", "discount_price",
     "min_stock_level", "max_stock_level", "supplier"}

\* ProductBulkUpdateSerializer.is_valid()
BulkUpdateValid(req) ==
    /\ req.product_ids.items # <<>>
    /\ IdSet(req.product_ids) \subseteq Existing("product_service")
    /\ DOMAIN req.updates.m # {}
    /\ DOMAIN req.updates.m \subseteq allowed_fields

\* Lines 270-272 of bulk_update.
bulk_update(w, req) ==
    /\ Free(w)
    /\ LET c == [Idle EXCEPT !.op = "bulk_update", !.input = req]
       IN  call' = [call EXCEPT ![w] =
               IF ~BulkUpdateValid(req)
               THEN [c EXCEPT !.pc = "done", !.status = HTTP_400_BAD_REQUEST]
               ELSE [c EXCEPT !.pc = "valid"]]
    /\ UNCHANGED <<schemas, store, nextPk, nextSchema, db>>

\* Whether a column takes a value of update(**updates): a Decimal column
\* refuses text that is no number.
ColumnRefuses(k, x) == k \in {"selling_price", "discount_price"} /\ x.t = "str"

\* The value a column stores for a JSON value.
ColumnValue(k, x) == IF x.t = "bool" THEN x.v = "true" ELSE x.v

\* A row after update(**updates).
Updated(row, updates) ==
    [k \in DOMAIN row |->
        IF k \in DOMAIN updates.m THEN ColumnValue(k, updates.m[k]) ELSE row[k]]

\* Lines 279-287: the atomic block opens, the UPDATE runs in it, the updated
\* rows are read back and the first of them is pushed.  An UPDATE the
\* database refuses raises; the block is undone and the view answers 500.
BulkApply(w) ==
    /\ call[w].op = "bulk_update"
    /\ call[w].pc = "valid"
    /\ LET updates == call[w].input.updates
           ids == IdSet(call[w].input.product_ids)
           rows == SelectSeq(Newest(db.product), LAMBDA p : p.id \in ids)
           updated == [i \in DOMAIN rows |-> Updated(rows[i], updates)]
       IN  call' = [call EXCEPT ![w] =
               IF \E k \in DOMAIN updates.m : ColumnRefuses(k, updates.m[k])
               THEN [@ EXCEPT !.pc = "done", !.status = HTTP_500_INTERNAL_SERVER_ERROR]
               ELSE StartPush([@ EXCEPT !.tx = TRUE, !.count = Len(updated),
                                        !.queue = Tail(updated)],
                              "product_service", <<Head(updated)>>,
                              DefaultSchema("product_service"))]
    /\ UNCHANGED <<schemas, store, nextPk, nextSchema, db>>

\* Lines 279 and 289-292: the loop is over, the atomic block is left and its
\* UPDATE committed; the view answers 200.
BulkCommit(w) ==
    /\ call[w].op = "bulk_update"
    /\ call[w].pc = "commit"
    /\ db' = [db EXCEPT !.product =
                 [i \in DOMAIN @ |->
                     IF @[i].id \in IdSet(call[w].input.product_ids)
                     THEN Updated(@[i], call[w].input.updates) ELSE @[i]]]
    /\ call' = [call EXCEPT ![w].pc = "done", ![w].tx = FALSE,
                            ![w].status = HTTP_200_OK]
    /\ UNCHANGED <<schemas, store, nextPk, nextSchema>>

\* The answer of sync_to_core that hands the status of the aggregator on.
sync_response_passthrough(code) ==
    IF code = HTTP_201_CREATED THEN HTTP_200_OK ELSE code

\* The answer of sync_to_core to a response of the aggregator: 200 for a
\* 201, 502 for anything else.
sync_response(code) ==
    IF code = HTTP_201_CREATED THEN HTTP_200_OK ELSE HTTP_502_BAD_GATEWAY

\* The answer of sync_single to what sync_to_core_service returned.
single_response(success) == IF success THEN HTTP_200_OK ELSE HTTP_502_BAD_GATEWAY

\* The operations of a producer that write its database and then push.
MutationOps == {"create_user", "create_product", "update_stock", "bulk_update"}

\* A mutation that answers by what its push returned.
AfterPushStrict(c) ==
    [c EXCEPT !.pc = "done",
              !.status = IF c.result THEN HTTP_200_OK ELSE HTTP_502_BAD_GATEWAY]

\* A mutation after sync_to_core_service has returned: the value is dropped.
\* The creations answer 201 and update_stock 200; bulk_update pushes the
\* next product of its loop, or leaves the atomic block.
AfterPush(c) ==
    IF c.op \in {"create_user", "create_product"}
    THEN [c EXCEPT !.pc = "done", !.status = HTTP_201_CREATED]
    ELSE IF c.op = "update_stock"
    THEN [c EXCEPT !.pc = "done", !.status = HTTP_200_OK]
    ELSE IF c.queue # <<>>
    THEN StartPush([c EXCEPT !.queue = Tail(@)], "product_service",
                   <<Head(c.queue)>>, DefaultSchema("product_service"))
    ELSE [c EXCEPT !.pc = "commit"]

\* How a push ends, by its mode: the bulk view answers status, with fault
\* when an exception left it; sync_to_core_service returns result, by which
\* sync_single answers and which the mutations drop.
Classified(c, net, status, details, result, fault) ==
    IF c.op = "sync_to_core"
    THEN [c EXCEPT !.pc = "done", !.net = net, !.status = status,
                   !.details = details, !.fault = fault]
    ELSE IF c.op = "sync_single"
    THEN [c EXCEPT !.pc = "done", !.net = net, !.result = result,
                   !.details = details, !.status = single_response(result)]
    ELSE AfterPush([c EXCEPT !.net = net, !.result = result, !.details = details])

\* A client that sends the request again when the aggregator was unavailable.
PushEndsRetry(c, net, status, details, result, fault) ==
    IF net \in {"connection", "timeout"} /\ c.sent < 2
    THEN [c EXCEPT !.sent = @ + 1, !.delivered = FALSE]
    ELSE Classified(c, net, status, details, result, fault)

\* requests.post is called once, outside any loop: however it ends, the push
\* ends with it.
PushEnds(c, net, status, details, result, fault) ==
    Classified(c, net, status, details, result, fault)

\* requests.post cannot encode the body: TypeError, which is no
\* RequestException.  The bulk view does not catch it and the framework
\* answers 500; sync_to_core_service catches Exception and returns False.
PostTypeError(w) ==
    /\ call[w].pc = "post"
    /\ ~call[w].delivered
    /\ ~Serializable(call[w].body)
    /\ call' = [call EXCEPT ![w] =
           PushEnds(call[w], "type_error", HTTP_500_INTERNAL_SERVER_ERROR, 0, FALSE, TRUE)]
    /\ UNCHANGED <<schemas, store, nextPk, nextSchema, db>>

\* requests.post raises ConnectionError before the request arrives.
PostConnectionError(w) ==
    /\ call[w].pc = "post"
    /\ ~call[w].delivered
    /\ call' = [call EXCEPT ![w] =
           PushEnds(call[w], "connection", HTTP_503_SERVICE_UNAVAILABLE, 0, FALSE, FALSE)]
    /\ UNCHANGED <<schemas, store, nextPk, nextSchema, db>>

\* requests.post raises Timeout: connecting, or waiting for the answer while
\* the aggregator goes on with the request.
PostTimeout(w) ==
    /\ call[w].pc = "post"
    /\ call' = [call EXCEPT ![w] =
           PushEnds(call[w], "timeout", HTTP_503_SERVICE_UNAVAILABLE, 0, FALSE, FALSE)]
    /\ UNCHANGED <<schemas, store, nextPk, nextSchema, db>>

\* The request arrives: the aggregator starts populate on the body.
PostDelivered(w) ==
    /\ call[w].pc = "post"
    /\ ~call[w].delivered
    /\ Remote(w) \in Workers
    /\ Free(Remote(w))
    /\ call' = [call EXCEPT
           ![Remote(w)] = PopulateRequest(call[w].schema, Wire(call[w].body)),
           ![w].delivered = TRUE]
    /\ UNCHANGED <<schemas, store, nextPk, nextSchema, db>>

\* The answer of the aggregator is read: lines 92-102 of sync_to_core, the
\* return of sync_to_core_service.
PostResponse(w) ==
    /\ call[w].pc = "post"
    /\ call[w].delivered
    /\ call[Remote(w)].op = "populate"
    /\ call[Remote(w)].pc = "done"
    /\ LET code == call[Remote(w)].status
       IN  call' = [call EXCEPT ![w] =
               PushEnds(call[w], "answered", sync_response(code), code,
                        code = HTTP_201_CREATED, FALSE)]
    /\ UNCHANGED <<schemas, store, nextPk, nextSchema, db>>

\* The aggregator has sent, or lost, the answer of a push that no client
\* waits for any more: its worker takes the next request.
Release(a) ==
    /\ call[a].op = "populate"
    /\ call[a].pc = "done"
    /\ \A w \in Workers : Remote(w) = a => ~(call[w].pc = "post" /\ call[w].delivered)
    /\ call' = [call EXCEPT ![a] = Idle]
    /\ UNCHANGED <<schemas, store, nextPk, nextSchema, db>>

(***************************************************************************)
(* Spec: the aggregator under concurrent requests.  Every request of a run *)
(* has its own worker; the batches are well formed, of every length.       *)
(***************************************************************************)
Batches ==
    {[i \in 1..n |-> JObj([id |-> JStr("1"), full_name |-> JStr("A B")])] : n \in 1..MaxLen}

SysBodies == {[source_service |-> JStr("user_service"), data |-> JList(b)] : b \in Batches}

Init ==
    /\ schemas = [s \in SchemaIds |-> NoRow]
    /\ store = {}
    /\ nextPk = 1
    /\ nextSchema = 1
    /\ call = [w \in Workers |-> Idle]
    /\ db = InitDb

Next ==
    \/ \E w \in Workers, pk \in SchemaIds, body \in SysBodies : PopulateBegin(w, pk, body)
    \/ \E w \in Workers : PopulateInsert(w)
    \/ \E w \in Workers : PopulateFail(w)
    \/ \E w \in Workers : PopulateCommit(w)
    \/ \E w \in Workers, pk \in SchemaIds : ClearCount(w, pk)
    \/ \E w \in Workers : ClearDelete(w)
    \/ \E active \in BOOLEAN : SchemaCreate(active)
    \/ \E pk \in SchemaIds : SchemaDeactivate(pk)
    \/ \E pk \in SchemaIds : SchemaDestroy(pk)
    \/ \E w \in Workers, pk \in SchemaIds :
          DataCreate(w, pk, JObj([full_name |-> JStr("A B")]), "manual")
    \/ \E id \in StoredIds : DataPartialUpdate(id, "edited")
    \/ \E id \in StoredIds : DataDestroy(id)

Spec == Init /\ [][Next]_vars

(***************************************************************************)
(* SpecCore: the aggregator with the record resource only read, as the     *)
(* specification describes it: schemas, populate and clear_data.           *)
(***************************************************************************)
NextCore ==
    \/ \E w \in Workers, pk \in SchemaIds, body \in SysBodies : PopulateBegin(w, pk, body)
    \/ \E w \in Workers : PopulateInsert(w)
    \/ \E w \in Workers : PopulateFail(w)
    \/ \E w \in Workers : PopulateCommit(w)
    \/ \E w \in Workers, pk \in SchemaIds : ClearCount(w, pk)
    \/ \E w \in Workers : ClearDelete(w)
    \/ \E active \in BOOLEAN : SchemaCreate(active)
    \/ \E pk \in SchemaIds : SchemaDeactivate(pk)
    \/ \E pk \in SchemaIds : SchemaDestroy(pk)

SpecCore == Init /\ [][NextCore]_vars

(***************************************************************************)
(* SpecSeq: the requests of Spec served one at a time: a request starts, and *)
(* the one-statement operations run, only while no request is in flight.   *)
(***************************************************************************)
Quiet == \A w \in Workers : ~InFlight(w)

NextSeq ==
    \/ Quiet /\ \E w \in Workers, pk \in SchemaIds, body \in SysBodies :
                   PopulateBegin(w, pk, body)
    \/ \E w \in Workers : PopulateInsert(w)
    \/ \E w \in Workers : PopulateFail(w)
    \/ \E w \in Workers : PopulateCommit(w)
    \/ Quiet /\ \E w \in Workers, pk \in SchemaIds : ClearCount(w, pk)
    \/ \E w \in Workers : ClearDelete(w)
    \/ Quiet /\ \E active \in BOOLEAN : SchemaCreate(active)
    \/ Quiet /\ \E pk \in SchemaIds : SchemaDeactivate(pk)
    \/ Quiet /\ \E pk \in SchemaIds : SchemaDestroy(pk)
    \/ Quiet /\ \E w \in Workers, pk \in SchemaIds :
                   DataCreate(w, pk, JObj([full_name |-> JStr("A B")]), "manual")
    \/ Quiet /\ \E id \in StoredIds : DataPartialUpdate(id, "edited")
    \/ Quiet /\ \E id \in StoredIds : DataDestroy(id)

SpecSeq == Init /\ [][NextSeq]_vars

(***************************************************************************)
(* SpecPopulate: one populate request with any body of Bodies, sent to the *)
(* aggregator as the scenario of the specification leaves it (the schema   *)
(* "employees" created, one record populated into it), while the schema    *)
(* resource goes on creating, deactivating and deleting schemas.           *)
(***************************************************************************)
InitPopulate ==
    /\ schemas = [s \in SchemaIds |->
                     IF s = 1 THEN SchemaRow(SchemaName(1), "", EmployeesConfig, TRUE)
                     ELSE NoRow]
    /\ store = {NewRow(1, 1, JObj([id |-> JStr("1"), full_name |-> JStr("A B")]),
                       "user_service")}
    /\ nextPk = 2
    /\ nextSchema = 2
    /\ call = [w \in Workers |-> Idle]
    /\ db = InitDb

NextPopulate ==
    \/ \E pk \in SchemaIds, body \in Bodies : PopulateBegin(1, pk, body)
    \/ PopulateInsert(1)
    \/ PopulateFail(1)
    \/ PopulateCommit(1)
    \/ \E active \in BOOLEAN : SchemaCreate(active)
    \/ \E pk \in SchemaIds : SchemaDeactivate(pk)
    \/ \E pk \in SchemaIds : SchemaDestroy(pk)

SpecPopulate == InitPopulate /\ [][NextPopulate]_vars

(***************************************************************************)
(* SpecClearPopulate: one clear_data request and one populate request, in  *)
(* either order and interleaved in every way, on the aggregator of the     *)
(* scenario (schema "employees"), holding one record or none.              *)
(***************************************************************************)
HasOp(op) == \E v \in Workers : call[v].op = op

InitClearPopulate ==
    /\ schemas = [s \in SchemaIds |->
                     IF s = 1 THEN SchemaRow(SchemaName(1), "", EmployeesConfig, TRUE)
                     ELSE NoRow]
    /\ store \in SUBSET {NewRow(1, 1, JObj([id |-> JStr("1"), full_name |-> JStr("A B")]),
                                "user_service")}
    /\ nextPk = 2
    /\ nextSchema = 2
    /\ call = [w \in Workers |-> Idle]
    /\ db = InitDb

NextClearPopulate ==
    \/ \E w \in Workers, pk \in SchemaIds, body \in SysBodies :
          ~HasOp("populate") /\ PopulateBegin(w, pk, body)
    \/ \E w \in Workers : PopulateInsert(w)
    \/ \E w \in Workers : PopulateFail(w)
    \/ \E w \in Workers : PopulateCommit(w)
    \/ \E w \in Workers, pk \in SchemaIds : ~HasOp("clear_data") /\ ClearCount(w, pk)
    \/ \E w \in Workers : ClearDelete(w)

SpecClearPopulate == InitClearPopulate /\ [][NextClearPopulate]_vars

(***************************************************************************)
(* SpecTwoPopulates: two populate requests, on the same schema or on two,  *)
(* interleaved in every way, and nothing else writing records.             *)
(***************************************************************************)
Populates == {v \in Workers : call[v].op = "populate"}

NextTwoPopulates ==
    \/ \E w \in Workers, pk \in SchemaIds, body \in SysBodies :
          Cardinality(Populates) < 2 /\ PopulateBegin(w, pk, body)
    \/ \E w \in Workers : PopulateInsert(w)
    \/ \E w \in Workers : PopulateFail(w)
    \/ \E w \in Workers : PopulateCommit(w)
    \/ SchemaCreate(TRUE)

SpecTwoPopulates == InitClearPopulate /\ [][NextTwoPopulates]_vars

(***************************************************************************)
(* SpecCascade: the life of schemas (created, deactivated, deleted) around *)
(* the two requests that create records, one populate and one POST /data/. *)
(***************************************************************************)
NextCascade ==
    \/ \E w \in Workers, pk \in SchemaIds, body \in SysBodies :
          ~HasOp("populate") /\ PopulateBegin(w, pk, body)
    \/ \E w \in Workers : PopulateInsert(w)
    \/ \E w \in Workers : PopulateFail(w)
    \/ \E w \in Workers : PopulateCommit(w)
    \/ \E w \in Workers, pk \in SchemaIds :
          ~HasOp("create") /\ DataCreate(w, pk, JObj([full_name |-> JStr("A B")]), "manual")
    \/ \E active \in BOOLEAN : SchemaCreate(active)
    \/ \E pk \in SchemaIds : SchemaDeactivate(pk)
    \/ \E pk \in SchemaIds : SchemaDestroy(pk)

SpecCascade == InitClearPopulate /\ [][NextCascade]_vars

(***************************************************************************)
(* SpecSchemaWrite: one create, update or partial_update request with any  *)
(* body of SchemaBodies, sent to the schema resource of the scenario while *)
(* schemas are deactivated and deleted.                                    *)
(***************************************************************************)
NextSchemaWrite ==
    \/ Free(1) /\ \E body \in SchemaBodies : create(1, body)
    \/ Free(1) /\ \E pk \in SchemaIds, body \in SchemaBodies, partial \in BOOLEAN :
                     update(1, pk, body, partial)
    \/ SchemaSave(1)
    \/ \E pk \in SchemaIds : SchemaDeactivate(pk)
    \/ \E pk \in SchemaIds : SchemaDestroy(pk)

SpecSchemaWrite == InitClearPopulate /\ [][NextSchemaWrite]_vars

(***************************************************************************)
(* SpecRegistry: the schema resource under concurrent requests: every      *)
(* write request has its own worker; the bodies are well formed, with or   *)
(* without a name, fields_config and is_active.                            *)
(***************************************************************************)
RegistryBodies ==
    [name : {JAbsent, JStr("employees"), JStr("products")},
     description : {JAbsent},
     fields_config : {JAbsent, EmployeesConfig},
     is_active : ActiveInputs]

NextRegistry ==
    \/ \E w \in Workers : Free(w) /\ \E body \in RegistryBodies : create(w, body)
    \/ \E w \in Workers :
          Free(w) /\ \E pk \in SchemaIds, body \in RegistryBodies, partial \in BOOLEAN :
                        update(w, pk, body, partial)
    \/ \E w \in Workers : SchemaSave(w)
    \/ \E pk \in SchemaIds : SchemaDeactivate(pk)
    \/ \E pk \in SchemaIds : SchemaDestroy(pk)

SpecRegistry == InitClearPopulate /\ [][NextRegistry]_vars

(***************************************************************************)
(* SpecOpenSchema: the same populate request, any body of Bodies, sent to  *)
(* two schemas that differ in the fields they declare ("employees"         *)
(* declares full_name and email, "stock" declares sku).                    *)
(***************************************************************************)
StockConfig ==
    JObj([fields |-> JList(<<JObj([name |-> JStr("sku"), type |-> JStr("string")])>>)])

InitOpenSchema ==
    /\ schemas = [s \in SchemaIds |->
                     IF s = 1 THEN SchemaRow("employees", "", EmployeesConfig, TRUE)
                     ELSE IF s = 2 THEN SchemaRow("stock", "", StockConfig, TRUE)
                     ELSE NoRow]
    /\ store = {}
    /\ nextPk = 1
    /\ nextSchema = 3
    /\ call = [w \in Workers |-> Idle]
    /\ db = InitDb

NextOpenSchema ==
    \/ Free(1) /\ \E body \in Bodies : PopulateBegin(1, 1, body)
    \/ Free(2) /\ PopulateBegin(2, 2, call[1].body)
    \/ \E w \in Workers : PopulateInsert(w)
    \/ \E w \in Workers : PopulateFail(w)
    \/ \E w \in Workers : PopulateCommit(w)

SpecOpenSchema == InitOpenSchema /\ [][NextOpenSchema]_vars

(***************************************************************************)
(* SpecSync: one push of a producer service, bulk or single, to the        *)
(* aggregator of the scenario (schema "employees"), while the schema       *)
(* resource goes on creating, deactivating and deleting schemas.  Worker 1 *)
(* is the producer's, the next one the aggregator's.                       *)
(***************************************************************************)
NextSync ==
    \/ Free(1) /\ \E service \in Services, req \in SyncRequests :
                     sync_to_core(1, service, req)
    \/ Free(1) /\ \E service \in Services, id \in {1, 2, 9} : sync_single(1, service, id)
    \/ PostTypeError(1)
    \/ PostConnectionError(1)
    \/ PostTimeout(1)
    \/ PostDelivered(1)
    \/ PostResponse(1)
    \/ PopulateInsert(Remote(1))
    \/ PopulateFail(Remote(1))
    \/ PopulateCommit(Remote(1))
    \/ \E active \in BOOLEAN : SchemaCreate(active)
    \/ \E pk \in SchemaIds : SchemaDeactivate(pk)
    \/ \E pk \in SchemaIds : SchemaDestroy(pk)

SpecSync == InitClearPopulate /\ [][NextSync]_vars

(***************************************************************************)
(* The claims.                                                             *)
(***************************************************************************)
\* The rows of the table, out of `rows`, that request c wrote.
VisibleRows(rows, c) ==
    {r \in rows : \E i \in DOMAIN c.created_entries : c.created_entries[i].id = r.id}

\* A body as the claims call it malformed: data is no list, or is the empty
\* list, or has an element that is no object, or source_service is missing.
Malformed(body) ==
    \/ body.data.t # "list"
    \/ body.data.items = <<>>
    \/ \E i \in DOMAIN body.data.items : body.data.items[i].t # "obj"
    \/ body.source_service = JAbsent

\* C1: a populate call whose INSERT (or commit) fails ends with 500 and is
\* rolled back whole: the step that fails leaves the Record Store as it was
\* and none of the rows the call had written is in it; and no step of a call
\* other than its successful commit changes the Record Store, so the store
\* the call leaves is the store it found.
C1_RollbackOnStorageFailure ==
    [][\A w \in Workers :
          /\ (call[w].pc = "tx" /\ call'[w].pc = "done"
                  /\ call'[w].status # HTTP_201_CREATED)
             => /\ call'[w].status = HTTP_500_INTERNAL_SERVER_ERROR
                /\ store' = store
                /\ VisibleRows(store', call[w]) = {}
          /\ (call'[w] # call[w] /\ call'[w].op = "populate"
                  /\ call'[w].status # HTTP_201_CREATED)
             => store' = store]_vars

\* C1 witness: the second INSERT of a batch failed, after the first had
\* succeeded, with records of earlier calls in the store.
C1_Witness ==
    \E w \in Workers :
        /\ call[w].status = HTTP_500_INTERNAL_SERVER_ERROR
        /\ Len(call[w].created_entries) = 1
        /\ store # {}

\* C2 (as claimed): a populate call on an existing schema with a list of N >= 1
\* objects and a source_service, if no storage failure hits its commit,
\* answers 201 with count = N and has created N records that reference the
\* schema and carry the source_service.
C2_PopulateCreatesN ==
    \A w \in Workers :
        LET c == call[w] IN
        (c.op = "populate" /\ c.pc = "done" /\ c.found /\ ~Malformed(c.body)
              /\ c.status # HTTP_500_INTERNAL_SERVER_ERROR)
        => /\ c.status = HTTP_201_CREATED
           /\ c.count = Len(c.body.data.items)
           /\ Len(c.created_entries) = c.count
           /\ \A i \in DOMAIN c.created_entries :
                 /\ c.created_entries[i].schema = c.schema
                 /\ c.created_entries[i].source_service = c.body.source_service.v

\* C3 (as claimed): a populate call with a malformed body answers 400, opens no
\* transaction and leaves the Record Store unchanged.
C3_MalformedIs400 ==
    [][\A w \in Workers :
          (call[w].pc = "idle" /\ call'[w].op = "populate" /\ Malformed(call'[w].body))
          => /\ call'[w].pc = "done"
             /\ call'[w].status = HTTP_400_BAD_REQUEST
             /\ call'[w].created_entries = <<>>
             /\ store' = store]_vars

\* C3 (amended): a populate call with a malformed body fails at once, with no
\* transaction opened and the Record Store unchanged: with 400 when the schema
\* id resolves, with 404 when it does not (the schema is looked up first).
C3_MalformedFailsFast ==
    [][\A w \in Workers :
          (call[w].pc = "idle" /\ call'[w].op = "populate" /\ Malformed(call'[w].body))
          => /\ call'[w].pc = "done"
             /\ call'[w].status =
                   IF call'[w].schema \in get_queryset
                   THEN HTTP_400_BAD_REQUEST ELSE HTTP_404_NOT_FOUND
             /\ call'[w].created_entries = <<>>
             /\ store' = store
             /\ nextPk' = nextPk]_vars

\* C3 witness: a batch whose second element is not an object was answered 400
\* with records in the store.
C3_Witness ==
    \E w \in Workers :
        /\ call[w].status = HTTP_400_BAD_REQUEST
        /\ call[w].body.data.t = "list"
        /\ Len(call[w].body.data.items) = 2
        /\ call[w].body.data.items[1].t = "obj"
        /\ call[w].body.data.items[2] = Scalar
        /\ store # {}

\* C4: while a populate call is inside its transaction none of its rows is in
\* the committed table, and every step leaves either none of them there or,
\* by the commit that answers 201, all of them: whoever reads the table
\* during the call sees none or all of the batch.
C4_NoPartialBatch ==
    [][\A w \in Workers :
          call[w].pc = "tx"
          => /\ VisibleRows(store, call[w]) = {}
             /\ \/ VisibleRows(store', call'[w]) = {}
                \/ /\ call'[w].status = HTTP_201_CREATED
                   /\ Cardinality(VisibleRows(store', call'[w]))
                          = Len(call'[w].body.data.items)]_vars

\* C4 witness: a call has written the first of two rows and not yet committed,
\* while the table holds other records.
C4_Witness ==
    \E w \in Workers :
        /\ call[w].pc = "tx"
        /\ Len(call[w].created_entries) = 1
        /\ Len(call[w].body.data.items) = 2
        /\ store # {}

\* The value of an element's "id" key, the empty string when it has none.
IdOrEmpty(e) == IF "id" \in DOMAIN e.m THEN e.m.id ELSE JStr("")

\* C5 (as claimed): every row populate writes has the element as its payload
\* and, as its source_id, the element's "id" value itself, or "" without one.
C5_SourceIdIsIdValue ==
    \A w \in Workers : \A i \in DOMAIN call[w].created_entries :
        LET e == call[w].body.data.items[i]
            r == call[w].created_entries[i]
        IN  /\ r.data = e
            /\ JStr(r.source_id) = IdOrEmpty(e)

\* C5 (amended): every row populate writes has the element as its payload and,
\* as its source_id, the text of the element's "id" value (a number is stored
\* as its digits), or "" without an "id" key; an element whose "id" is null is
\* never written.
C5_SourceIdIsIdText ==
    \A w \in Workers : \A i \in DOMAIN call[w].created_entries :
        LET e == call[w].body.data.items[i]
            r == call[w].created_entries[i]
        IN  /\ r.data = e
            /\ IdOrEmpty(e).t \in {"str", "int"}
            /\ r.source_id = IdOrEmpty(e).v

\* C5 witness: a committed batch with an element whose "id" is a number.
C5_Witness ==
    \E w \in Workers :
        /\ call[w].status = HTTP_201_CREATED
        /\ \E i \in DOMAIN call[w].created_entries :
              /\ IdOrEmpty(call[w].body.data.items[i]) = JInt("5")
              /\ call[w].created_entries[i] \in store

\* C6 (as claimed): a finished populate call has exactly one of four outcomes:
\* 404 exactly when the schema id has no Schema, else 400 when the body is
\* malformed, else 500 or 201; only a 201 call has records in the store.
C6_OutcomeTaxonomy ==
    \A w \in Workers :
        LET c == call[w] IN
        (c.op = "populate" /\ c.pc = "done")
        => /\ c.status \in {HTTP_404_NOT_FOUND, HTTP_400_BAD_REQUEST,
                            HTTP_500_INTERNAL_SERVER_ERROR, HTTP_201_CREATED}
           /\ (c.status = HTTP_404_NOT_FOUND) <=> ~c.found
           /\ (c.status = HTTP_400_BAD_REQUEST) <=> (c.found /\ Malformed(c.body))
           /\ c.status # HTTP_201_CREATED => VisibleRows(store, c) = {}

\* C7 (as claimed): once the active flag of a schema is cleared the schema is
\* left out of the listing and is still addressable: retrieve and data do not
\* answer 404 for it, and no populate or clear_data sent to a schema that has
\* a row answers 404.
C7_DeactivatedStaysAddressable ==
    [][/\ \A s \in SchemaIds :
             (schemas[s].is_active /\ schemas'[s].exists /\ ~schemas'[s].is_active)
             => /\ s \notin SchemaList'
                /\ retrieve(s)' # HTTP_404_NOT_FOUND
                /\ data(s)' # HTTP_404_NOT_FOUND
       /\ \A w \in Workers :
             (call[w].pc = "idle" /\ call'[w].op \in {"populate", "clear_data"}
                  /\ call'[w].found)
             => call'[w].status # HTTP_404_NOT_FOUND]_vars

\* C8 (as claimed): records are insert-only: a row enters the table only by the
\* commit of a populate call, as that call wrote it (so no row is ever created
\* or changed otherwise), and a row leaves it only when its schema is deleted
\* or cleared.
C8_RecordsInsertOnly ==
    [][/\ \A r \in store' \ store :
             \E w \in Workers :
                 /\ call[w].pc = "tx"
                 /\ call'[w].status = HTTP_201_CREATED
                 /\ r \in Range(call'[w].created_entries)
       /\ \A r \in store \ store' :
             \/ schemas[r.schema].exists /\ ~schemas'[r.schema].exists
             \/ \E w \in Workers :
                   /\ call[w].pc = "counted"
                   /\ call'[w].pc = "done"
                   /\ call[w].schema = r.schema]_vars

\* C9 (as claimed): the count a clear reports is the number of records it
\* deleted, in every execution.
C9_ClearReportsDeleted ==
    \A w \in Workers :
        (call[w].op = "clear_data" /\ call[w].status = HTTP_200_OK)
        => call[w].deleted_count = call[w].removed

\* C10 (as claimed): with no concurrent operation, a clear of a schema that
\* holds K records deletes exactly those K, reports K, and leaves the query for
\* that schema empty.
C10_ClearAlone ==
    [][\A w \in Workers :
          (call'[w] # call[w] /\ call'[w].op = "clear_data" /\ call'[w].pc = "done"
               /\ call'[w].found)
          => /\ call'[w].status = HTTP_200_OK
             /\ store' = store \ filter_schema(store, call'[w].schema)
             /\ call'[w].removed = Cardinality(filter_schema(store, call'[w].schema))
             /\ call'[w].deleted_count = call'[w].removed
             /\ TableDataQuery(store', call'[w].schema) = <<>>]_vars

(***************************************************************************)
(* SpecMutation: one writing operation of a producer (a creation,          *)
(* update_stock or bulk_update) with its pushes, to the aggregator of the  *)
(* scenario, where the schema the products go to may be created or not.    *)
(***************************************************************************)
NextMutation ==
    \/ Free(1) /\ \E attrs \in UserInputs : create_user(1, attrs)
    \/ Free(1) /\ \E attrs \in ProductInputs : create_product(1, attrs)
    \/ Free(1) /\ \E req \in StockRequests : update_stock(1, req)
    \/ Free(1) /\ \E req \in BulkRequests : bulk_update(1, req)
    \/ StockLoad(1)
    \/ StockSave(1)
    \/ BulkApply(1)
    \/ BulkCommit(1)
    \/ PostTypeError(1)
    \/ PostConnectionError(1)
    \/ PostTimeout(1)
    \/ PostDelivered(1)
    \/ PostResponse(1)
    \/ PopulateInsert(Remote(1))
    \/ PopulateFail(Remote(1))
    \/ PopulateCommit(Remote(1))
    \/ Release(Remote(1))
    \/ SchemaCreate(TRUE)

SpecMutation == InitClearPopulate /\ [][NextMutation]_vars

(***************************************************************************)
(* SpecAppend: one push of the users, single or bulk, to the aggregator of *)
(* the scenario, which holds the record of an earlier push of user 1 or    *)
(* none; nothing deletes records.                                          *)
(***************************************************************************)
NextAppend ==
    \/ Free(1) /\ \E req \in SyncRequests : sync_to_core(1, "user_service", req)
    \/ Free(1) /\ \E id \in {1, 2, 9} : sync_single(1, "user_service", id)
    \/ PostConnectionError(1)
    \/ PostTimeout(1)
    \/ PostDelivered(1)
    \/ PostResponse(1)
    \/ PopulateInsert(Remote(1))
    \/ PopulateFail(Remote(1))
    \/ PopulateCommit(Remote(1))

SpecAppend == InitClearPopulate /\ [][NextAppend]_vars

(***************************************************************************)
(* SpecStock: two update_stock requests, served by two workers of the      *)
(* product service at once; the aggregator is not reached, so every push   *)
(* ends in an exception of requests.post.                                  *)
(***************************************************************************)
NextStock ==
    \/ \E w \in {1, 2} : \E req \in StockRequests : update_stock(w, req)
    \/ \E w \in {1, 2} : StockLoad(w)
    \/ \E w \in {1, 2} : StockSave(w)
    \/ \E w \in {1, 2} : PostTypeError(w)
    \/ \E w \in {1, 2} : PostConnectionError(w)
    \/ \E w \in {1, 2} : PostTimeout(w)

SpecStock == InitClearPopulate /\ [][NextStock]_vars

(***************************************************************************)
(* The image resource of the product service: ProductImageViewSet, a       *)
(* ModelViewSet, with its action set_primary.                              *)
(***************************************************************************)
\* What a client may send to create or update an image: the product (9 is
\* the id of no product) and the flag.
ImageInputs == [product : {1, 2, 9}, is_primary : BOOLEAN]

\* The ids a client may address; 9 is the id of no image.
ImageIds == 1..MaxImages \cup {9}

\* A worker takes the next request once it has answered the last one.
Ready(w) == call[w].pc \in {"idle", "done"}

\* get_object of the image resource.
ImageExists(id) == id \in DOMAIN db.image

\* A save that leaves the other images as they are.
ClearedNone(images, product, id) == images

\* filter(product=product, is_primary=True).exclude(id=id).update(
\* is_primary=False); id 0 stands for the None of an unsaved instance, and
\* for no exclude at all.
Cleared(images, product, id) ==
    [i \in DOMAIN images |->
        IF images[i].product = product /\ images[i].is_primary /\ images[i].id # id
        THEN [images[i] EXCEPT !.is_primary = FALSE]
        ELSE images[i]]

\* The request reaches ProductImage.save() with the instance in local:
\* lines 323-327 when it is primary, line 328 at once otherwise.
SaveBegins(c, row) ==
    [c EXCEPT !.pc = IF row.is_primary THEN "img_clear" ELSE "img_write",
              !.local = row, !.entity = row.id]

\* POST /images/: the serializer resolves the product, and save() is called
\* on a new instance.
image_create(w, attrs) ==
    /\ Ready(w)
    /\ Len(db.image) < MaxImages
    /\ LET c == [Idle EXCEPT !.op = "image_create"]
       IN  call' = [call EXCEPT ![w] =
               IF attrs.product \notin Existing("product_service")
               THEN [c EXCEPT !.pc = "done", !.status = HTTP_400_BAD_REQUEST]
               ELSE SaveBegins(c, [id |-> 0, product |-> attrs.product,
                                   is_primary |-> attrs.is_primary])]
    /\ UNCHANGED <<schemas, store, nextPk, nextSchema, db>>

\* PUT /images/{id}/: get_object, the serializer sets the fields on the
\* instance, and save() is called.
image_update(w, id, attrs) ==
    /\ Ready(w)
    /\ LET c == [Idle EXCEPT !.op = "image_update", !.entity = id]
       IN  call' = [call EXCEPT ![w] =
               IF ~ImageExists(id)
               THEN [c EXCEPT !.pc = "done", !.status = HTTP_404_NOT_FOUND]
               ELSE IF attrs.product \notin Existing("product_service")
               THEN [c EXCEPT !.pc = "done", !.status = HTTP_400_BAD_REQUEST]
               ELSE SaveBegins(c, [id |-> id, product |-> attrs.product,
                                   is_primary |-> attrs.is_primary])]
    /\ UNCHANGED <<schemas, store, nextPk, nextSchema, db>>

\* set_primary, line 396: get_object.
set_primary(w, id) ==
    /\ Ready(w)
    /\ LET c == [Idle EXCEPT !.op = "set_primary", !.entity = id]
       IN  call' = [call EXCEPT ![w] =
               IF ~ImageExists(id)
               THEN [c EXCEPT !.pc = "done", !.status = HTTP_404_NOT_FOUND]
               ELSE [c EXCEPT !.pc = "sp_clear", !.local = db.image[id]]]
    /\ UNCHANGED <<schemas, store, nextPk, nextSchema, db>>

\* set_primary, lines 398-404: the primaries of the product are cleared, the
\* instance is made primary and saved.
SetPrimaryClear(w) ==
    /\ call[w].pc = "sp_clear"
    /\ db' = [db EXCEPT !.image = Cleared(@, call[w].local.product, 0)]
    /\ call' = [call EXCEPT ![w] =
           SaveBegins(@, [call[w].local EXCEPT !.is_primary = TRUE])]
    /\ UNCHANGED <<schemas, store, nextPk, nextSchema>>

\* ProductImage.save(), lines 323-327: the other primaries of the product
\* are cleared.
ImageClear(w) ==
    /\ call[w].pc = "img_clear"
    /\ db' = [db EXCEPT !.image = Cleared(@, call[w].local.product, call[w].local.id)]
    /\ call' = [call EXCEPT ![w].pc = "img_write"]
    /\ UNCHANGED <<schemas, store, nextPk, nextSchema>>

\* ProductImage.save(), line 328: the row is inserted, with the next id, or
\* written over the row of its id.
ImageWrite(w) ==
    /\ call[w].pc = "img_write"
    /\ LET row == call[w].local
           id == IF row.id = 0 THEN Len(db.image) + 1 ELSE row.id
       IN  /\ db' = [db EXCEPT !.image =
                   IF row.id = 0 THEN Append(@, [row EXCEPT !.id = id])
                   ELSE [@ EXCEPT ![id] = row]]
           /\ call' = [call EXCEPT ![w] =
                   [@ EXCEPT !.pc = "done", !.entity = id,
                             !.status = IF call[w].op = "image_create"
                                        THEN HTTP_201_CREATED ELSE HTTP_200_OK]]
    /\ UNCHANGED <<schemas, store, nextPk, nextSchema>>

(***************************************************************************)
(* SpecImage: the requests of the image resource served one at a time, in  *)
(* any sequence.                                                           *)
(***************************************************************************)
NextImage ==
    \/ \E attrs \in ImageInputs : image_create(1, attrs)
    \/ \E id \in ImageIds, attrs \in ImageInputs : image_update(1, id, attrs)
    \/ \E id \in ImageIds : set_primary(1, id)
    \/ SetPrimaryClear(1)
    \/ ImageClear(1)
    \/ ImageWrite(1)

SpecImage == InitClearPopulate /\ [][NextImage]_vars

(***************************************************************************)
(* The category resource of the product service: CategoryViewSet, a        *)
(* ModelViewSet over CategorySerializer.                                   *)
(***************************************************************************)
\* What a client may send to create or update a category: a name and the
\* parent, 0 for null and 9 the id of no category.
CategoryInputs == [name : {"Office", "Pens", "Ink"}, parent : 0..MaxCategories \cup {9}]

\* The ids a client may address; 9 is the id of no category.
CategoryIds == 1..MaxCategories \cup {9}

\* Whether Category.get_full_path returns for the row of id in the table
\* rows within depth calls, each call of a row with a parent making the
\* call of its parent.  A chain of parents that does not come back to a row
\* has at most as many rows as the table; a longer one goes round, and the
\* calls end in RecursionError.
RECURSIVE ReturnsIn(_, _, _)
ReturnsIn(rows, id, depth) ==
    \/ rows[id].parent = 0
    \/ depth > 0 /\ ReturnsIn(rows, rows[id].parent, depth - 1)

\* CategorySerializer.is_valid(): the name unique among the other rows, the
\* parent null or an existing category; nothing looks at where the chain
\* of parents leads.
CategoryValid(id, attrs) ==
    /\ \A i \in DOMAIN db.category : db.category[i].name = attrs.name => i = id
    /\ attrs.parent = 0 \/ attrs.parent \in DOMAIN db.category

\* The answer of a write of the category resource: the row is serialised
\* with its full_path, and an exception in it is a 500.
CategoryAnswer(rows, id, ok) ==
    IF ReturnsIn(rows, id, Len(rows)) THEN ok ELSE HTTP_500_INTERNAL_SERVER_ERROR

\* POST /categories/
category_create(w, attrs) ==
    /\ Ready(w)
    /\ Len(db.category) < MaxCategories
    /\ LET c == [Idle EXCEPT !.op = "category_create", !.pc = "done"]
           id == Len(db.category) + 1
           rows == Append(db.category, [id |-> id, name |-> attrs.name,
                                        parent |-> attrs.parent])
       IN  IF ~CategoryValid(0, attrs)
           THEN /\ call' = [call EXCEPT ![w] = [c EXCEPT !.status = HTTP_400_BAD_REQUEST]]
                /\ UNCHANGED db
           ELSE /\ db' = [db EXCEPT !.category = rows]
                /\ call' = [call EXCEPT ![w] =
                       [c EXCEPT !.entity = id,
                                 !.status = CategoryAnswer(rows, id, HTTP_201_CREATED)]]
    /\ UNCHANGED <<schemas, store, nextPk, nextSchema>>

\* PUT /categories/{id}/
category_update(w, id, attrs) ==
    /\ Ready(w)
    /\ LET c == [Idle EXCEPT !.op = "category_update", !.pc = "done", !.entity = id]
           rows == [db.category EXCEPT ![id] = [id |-> id, name |-> attrs.name,
                                                parent |-> attrs.parent]]
       IN  IF id \notin DOMAIN db.category
           THEN /\ call' = [call EXCEPT ![w] = [c EXCEPT !.status = HTTP_404_NOT_FOUND]]
                /\ UNCHANGED db
           ELSE IF ~CategoryValid(id, attrs)
           THEN /\ call' = [call EXCEPT ![w] = [c EXCEPT !.status = HTTP_400_BAD_REQUEST]]
                /\ UNCHANGED db
           ELSE /\ db' = [db EXCEPT !.category = rows]
                /\ call' = [call EXCEPT ![w] =
                       [c EXCEPT !.status = CategoryAnswer(rows, id, HTTP_200_OK)]]
    /\ UNCHANGED <<schemas, store, nextPk, nextSchema>>

(***************************************************************************)
(* SpecCategory: the writes of the category resource, in any sequence.     *)
(***************************************************************************)
NextCategory ==
    \/ \E attrs \in CategoryInputs : category_create(1, attrs)
    \/ \E id \in CategoryIds, attrs \in CategoryInputs : category_update(1, id, attrs)

SpecCategory == InitClearPopulate /\ [][NextCategory]_vars

\* C11: one clear and one populate on the same schema, interleaved in any way,
\* leave the schema with the records of one of the two serial orders: the
\* whole batch and nothing else (clear, then populate), or nothing (populate,
\* then clear; also when the populate failed); and in no state is a part of
\* the batch in the Record Store: none of it is, or all of it.
C11_ClearPopulateSerial ==
    \A c \in Workers, p \in Workers :
        (call[p].op = "populate" /\ call[p].schema \in get_queryset)
        => LET batch == Range(call[p].created_entries)
               rows == filter_schema(store, call[p].schema)
           IN  /\ \/ batch \cap store = {}
                  \/ batch \subseteq store /\ call[p].status = HTTP_201_CREATED
                        /\ Len(call[p].created_entries) = Len(call[p].body.data.items)
               /\ (call[p].pc = "done" /\ call[c].op = "clear_data"
                       /\ call[c].schema = call[p].schema /\ call[c].pc = "done")
                  => \/ rows = {}
                     \/ rows = batch /\ call[p].status = HTTP_201_CREATED

\* C11 witness: the clear counted before the populate committed and deleted
\* after it, so it removed more rows than it had counted.
C11_Witness ==
    \E c \in Workers, p \in Workers :
        /\ call[p].op = "populate" /\ call[p].status = HTTP_201_CREATED
        /\ call[c].op = "clear_data" /\ call[c].status = HTTP_200_OK
        /\ call[c].schema = call[p].schema
        /\ call[c].removed > call[c].deleted_count
        /\ filter_schema(store, call[p].schema) = {}

\* The rows of the populate calls that answered 201.
Committed ==
    UNION {Range(call[w].created_entries) :
              w \in {v \in Workers : call[v].op = "populate"
                                         /\ call[v].status = HTTP_201_CREATED}}

\* C12: concurrent populate calls never conflict: a call that has written all
\* its rows commits whatever the other call is doing, its commit adds exactly
\* its batch to the Record Store, and after any interleaving the store is its
\* prior contents plus the whole batches of the calls that succeeded, every
\* row under the schema its call addressed.
C12_PopulatesCommute ==
    [][/\ \A w \in Workers :
             (call[w].pc = "tx" /\ call'[w].pc = "done"
                  /\ Len(call[w].created_entries) = Len(call[w].body.data.items))
             => /\ call'[w].status = HTTP_201_CREATED
                /\ call'[w].count = Len(call[w].body.data.items)
                /\ store' = store \cup Range(call[w].created_entries)
                /\ store \cap Range(call[w].created_entries) = {}
       /\ \A r \in store' : r.id >= 2 <=> r \in Committed'
       /\ \A r \in store : r \in store'
       /\ \A w \in Workers : \A i \in DOMAIN call'[w].created_entries :
             /\ call'[w].created_entries[i].schema = call'[w].schema
             /\ call'[w].status = HTTP_201_CREATED
                    => call'[w].created_entries[i] \in store'
       /\ \A v \in Workers, w \in Workers :
             v # w => Range(call'[v].created_entries)
                          \cap Range(call'[w].created_entries) = {}]_vars

\* C12 witness: two calls answered 201 whose INSERTs were interleaved (a row of
\* one lies between two rows of the other), all their rows stored.
C12_Witness ==
    \E v \in Workers, w \in Workers :
        /\ v # w
        /\ call[v].status = HTTP_201_CREATED /\ call[w].status = HTTP_201_CREATED
        /\ call[v].op = "populate" /\ call[w].op = "populate"
        /\ \E a \in Range(call[v].created_entries), b \in Range(call[w].created_entries),
              c \in Range(call[v].created_entries) : a.id < b.id /\ b.id < c.id
        /\ Range(call[v].created_entries) \cup Range(call[w].created_entries) \subseteq store

\* C13: in every state every record's schema reference resolves to an existing
\* schema: deleting a schema takes all its records with it, and a populate
\* interleaved with the delete leaves no record behind (its commit fails).
C13_RecordsHaveSchema ==
    /\ \A r \in store : r.schema \in all_schemas
    /\ \A s \in SchemaIds : s \notin all_schemas => filter_schema(store, s) = {}

\* C13 witness: a schema was deleted while a populate on it had written all
\* its rows; the commit failed and the store holds no record of that schema.
C13_Witness ==
    \E w \in Workers :
        /\ call[w].op = "populate"
        /\ call[w].status = HTTP_500_INTERNAL_SERVER_ERROR
        /\ Len(call[w].created_entries) = Len(call[w].body.data.items)
        /\ call[w].schema \notin all_schemas
        /\ store # {}

\* field_defs as the Schema invariant wants it: an object with a list-valued
\* "fields" key, every entry an object that declares name and type.
DeclaredShape(value) ==
    /\ value.t = "obj"
    /\ "fields" \in DOMAIN value.m
    /\ value.m.fields.t = "list"
    /\ \A i \in DOMAIN value.m.fields.items :
          /\ value.m.fields.items[i].t = "obj"
          /\ {"name", "type"} \subseteq DOMAIN value.m.fields.items[i].m

\* The same with a "fields" list that is not empty.
DeclaredShapeNonEmpty(value) ==
    DeclaredShape(value) /\ value.m.fields.items # <<>>

\* A name a creation can use: a string, not blank, held by no schema.
UsableName(x) ==
    /\ x.t = "str"
    /\ x.v \notin {"", " "}
    /\ \A s \in SchemaIds : schemas[s].exists => schemas[s].name # Strip(x.v)

\* The text a body gives for a field, "" when it gives none.
Sent(x) == IF x = JAbsent THEN "" ELSE x.v

\* C14 (as claimed): a creation (with a usable name) succeeds and stores name,
\* description and field_defs as sent when field_defs has a non-empty "fields"
\* list whose entries all have name and type; every other creation fails with
\* 400 and leaves the Schema Registry unchanged.
C14_CreateNonEmptyShape ==
    [][\A w \in Workers :
          (call'[w] # call[w] /\ call'[w].op = "create_schema" /\ call'[w].pc = "done")
          => LET b == call'[w].body
             IN  /\ (DeclaredShapeNonEmpty(b.fields_config) /\ UsableName(b.name))
                    => /\ call'[w].status = HTTP_201_CREATED
                       /\ schemas'[nextSchema].exists
                       /\ schemas'[nextSchema].name = b.name.v
                       /\ schemas'[nextSchema].description = Sent(b.description)
                       /\ schemas'[nextSchema].fields_config = b.fields_config
                 /\ ~DeclaredShapeNonEmpty(b.fields_config)
                    => /\ call'[w].status = HTTP_400_BAD_REQUEST
                       /\ schemas' = schemas]_vars

\* C14 (amended): a creation with a usable name passes validation when
\* field_defs is an object with a list-valued "fields" key (the empty list
\* included) whose entries all have name and type, and the row then written
\* has field_defs as sent and name and description trimmed of surrounding
\* blanks; every creation whose field_defs violates that shape fails with 400
\* and leaves the Schema Registry unchanged.
C14_CreateShape ==
    [][\A w \in Workers :
          (call'[w] # call[w] /\ call'[w].op = "create_schema")
          => LET b == call'[w].body
             IN  /\ (call[w].pc = "idle" /\ DeclaredShape(b.fields_config)
                         /\ UsableName(b.name))
                    => call'[w].pc = "valid" /\ schemas' = schemas
                 /\ (call[w].pc = "idle" /\ ~DeclaredShape(b.fields_config))
                    => /\ call'[w].pc = "done"
                       /\ call'[w].status = HTTP_400_BAD_REQUEST
                       /\ schemas' = schemas
                 /\ (call[w].pc = "valid" /\ UsableName(b.name))
                    => /\ call'[w].status = HTTP_201_CREATED
                       /\ DeclaredShape(b.fields_config)
                       /\ schemas' = [schemas EXCEPT ![nextSchema] =
                              SchemaRow(Strip(b.name.v), Strip(Sent(b.description)),
                                        b.fields_config, b.is_active = JAbsent)]
                 /\ call'[w].status # HTTP_201_CREATED => schemas' = schemas]_vars

\* C14 witness: a schema created with an empty "fields" list.
C14_Witness ==
    \E w \in Workers :
        /\ call[w].op = "create_schema"
        /\ call[w].status = HTTP_201_CREATED
        /\ call[w].body.fields_config = JObj([fields |-> JList(<<>>)])
        /\ schemas[call[w].schema].fields_config = JObj([fields |-> JList(<<>>)])

\* C15: in every state of the Schema Registry, whatever create, update,
\* partial_update, deactivation and delete led to it, every stored schema's
\* field_defs is an object with a list-valued "fields" key whose entries all
\* declare name and type.
C15_StoredShape ==
    \A s \in SchemaIds : schemas[s].exists => DeclaredShape(schemas[s].fields_config)

\* C15 witness: a partial update that sent no fields_config went through (it
\* renamed the schema) and the schema kept the field_defs it had.
C15_Witness ==
    \E w \in Workers :
        /\ call[w].op = "partial_update"
        /\ call[w].status = HTTP_200_OK
        /\ call[w].body.fields_config = JAbsent
        /\ call[w].body.name = JStr("products")
        /\ schemas[call[w].schema] = SchemaRow("products", "", EmployeesConfig, TRUE)

\* The request of worker w names a name that another existing schema holds.
NameHeld(w, c) ==
    /\ c.body.name # JAbsent
    /\ \E s \in SchemaIds :
          /\ schemas[s].exists
          /\ schemas[s].name = c.body.name.v
          /\ c.op = "create_schema" \/ s # c.schema

\* C16 (as claimed): no two schemas ever share a name, deactivated ones
\* counted; and a creation, or a rename of an existing schema, whose name
\* another existing schema holds ends with 400 and changes nothing.
C16_UniqueNames ==
    [][/\ \A s \in SchemaIds, u \in SchemaIds :
             (schemas'[s].exists /\ schemas'[u].exists /\ s # u)
             => schemas'[s].name # schemas'[u].name
       /\ \A w \in Workers :
             (call'[w] # call[w] /\ call'[w].pc = "done"
                  /\ \/ call'[w].op = "create_schema"
                     \/ call'[w].op \in {"update", "partial_update"} /\ call'[w].found
                  /\ NameHeld(w, call'[w]))
             => /\ call'[w].status = HTTP_400_BAD_REQUEST
                /\ schemas' = schemas]_vars

\* C17: a deactivation changes only the active flag of the schema: the other
\* schemas and the other fields of the row stay, the Record Store is
\* unchanged, and the record query filtered by the schema id still returns
\* every record of the schema, each once.
C17_DeactivateKeepsRecords ==
    [][\A s \in SchemaIds :
          (schemas[s].exists /\ schemas[s].is_active
               /\ schemas'[s].exists /\ ~schemas'[s].is_active)
          => /\ schemas' = [schemas EXCEPT ![s].is_active = FALSE]
             /\ store' = store
             /\ Range(TableDataQuery(store, s)') = {r \in store : r.schema = s}
             /\ Len(TableDataQuery(store, s)') = Cardinality({r \in store : r.schema = s})]_vars

\* C17 witness: the schema of the scenario, deactivated, with records that the
\* record query still returns.
C17_Witness ==
    /\ schemas[1].exists
    /\ ~schemas[1].is_active
    /\ Len(TableDataQuery(store, 1)) >= 2

\* What a stored record holds besides its key and its schema.
Payload(r) == [data |-> r.data, source_service |-> r.source_service,
               source_id |-> r.source_id]

\* C18: the same populate request sent to two schemas that differ in their
\* declared fields is rejected by both (400) or accepted by both, and what
\* the two calls store for an element is the same, and is the element as
\* sent, whatever keys it has beyond or short of the declared fields.
C18_OpenSchema ==
    (call[1].op = "populate" /\ call[2].op = "populate")
    => /\ call[1].body = call[2].body
       /\ get_field_names(call[1].schema) # get_field_names(call[2].schema)
       /\ call[1].status = HTTP_400_BAD_REQUEST <=> call[2].status = HTTP_400_BAD_REQUEST
       /\ HTTP_404_NOT_FOUND \notin {call[1].status, call[2].status}
       /\ \A i \in DOMAIN call[1].created_entries \cap DOMAIN call[2].created_entries :
             /\ Payload(call[1].created_entries[i]) = Payload(call[2].created_entries[i])
             /\ call[1].created_entries[i].data = call[1].body.data.items[i]
       /\ (call[1].status = HTTP_201_CREATED /\ call[2].status = HTTP_201_CREATED)
          => /\ call[1].count = call[2].count
             /\ {Payload(r) : r \in filter_schema(store, 1)}
                    = {Payload(r) : r \in filter_schema(store, 2)}

\* C18 witness: both calls stored an element that has a key neither schema
\* declares (id) and lacks a key the first schema declares (email).
C18_Witness ==
    /\ call[1].status = HTTP_201_CREATED
    /\ call[2].status = HTTP_201_CREATED
    /\ \E r \in filter_schema(store, 1), q \in filter_schema(store, 2) :
          /\ r.data = JObj([id |-> JStr("1"), full_name |-> JStr("A B")])
          /\ q.data = r.data
          /\ "id" \notin Range(get_field_names(1)) \cup Range(get_field_names(2))
          /\ "email" \in Range(get_field_names(1))

\* A bulk push that ends in this step.
BulkEnds(w) ==
    call[w].op = "sync_to_core" /\ call[w].pc = "post" /\ call'[w].pc = "done"

\* C19: a bulk push (sync_to_core) answers 200, Success, exactly when it read
\* an answer of the aggregator and that answer is 201; when it read an
\* answer with any other status it answers 502 and carries that status;
\* when the connection failed or the call timed out it answers 503.
C19_BulkClassified ==
    [][\A w \in Workers : BulkEnds(w) =>
          /\ call'[w].net = "answered"
                => call[Remote(w)].op = "populate" /\ call[Remote(w)].pc = "done"
          /\ call'[w].status = HTTP_200_OK
                <=> (call'[w].net = "answered"
                       /\ call[Remote(w)].status = HTTP_201_CREATED)
          /\ (call'[w].net = "answered" /\ call[Remote(w)].status # HTTP_201_CREATED)
                => /\ call'[w].status = HTTP_502_BAD_GATEWAY
                   /\ call'[w].details = call[Remote(w)].status
          /\ call'[w].net \in {"connection", "timeout"}
                => call'[w].status = HTTP_503_SERVICE_UNAVAILABLE]_vars

\* C19 witness: a bulk push of the users was declined by the aggregator with
\* 404 and answered 502 carrying the 404.
C19_Witness ==
    \E w \in Workers :
        /\ call[w].op = "sync_to_core" /\ call[w].pc = "done"
        /\ call[w].service = "user_service"
        /\ call[w].net = "answered"
        /\ call[w].status = HTTP_502_BAD_GATEWAY
        /\ call[w].details = HTTP_404_NOT_FOUND

\* C20: no push that has ended let an exception out: a single push returned
\* a boolean and its view answered by it, a bulk push answered 200, 502 or
\* 503 (or 400 or 404 before it sent anything).
C20_NoFaultEscapes ==
    \A w \in Workers :
        (call[w].op \in {"sync_to_core", "sync_single"} /\ call[w].pc = "done")
        => /\ ~call[w].fault
           /\ call[w].status \in {HTTP_200_OK, HTTP_400_BAD_REQUEST, HTTP_404_NOT_FOUND,
                                   HTTP_502_BAD_GATEWAY, HTTP_503_SERVICE_UNAVAILABLE}

\* C21: a single-entity push (sync_single) that found the aggregator
\* unreachable (no connection, or a timeout) answers otherwise than one the
\* aggregator declined, which answers single_response(FALSE), 502.
C21_SingleUnavailable ==
    \A w \in Workers :
        (call[w].op = "sync_single" /\ call[w].pc = "done"
            /\ call[w].net \in {"connection", "timeout"})
        => call[w].status # single_response(FALSE)

\* The two invocation modes of the sync client.
SyncOps == {"sync_single", "sync_to_core"}

\* C24: an invocation of a push, single or bulk, calls requests.post once:
\* it never has a second request out, and whatever ends the call (an
\* answer, a connection failure, a timeout, a body that cannot be encoded)
\* ends the invocation.
C24_NoRetry ==
    [][\A w \in Workers : call'[w].op \in SyncOps =>
          /\ call'[w].sent <= 1
          /\ call'[w].seq <= 1
          /\ (call[w].pc = "post" /\ call'[w].net # "none") => call'[w].pc = "done"]_vars

\* C24 witness: a bulk push timed out after its one request had reached the
\* aggregator, and ended there.
C24_Witness ==
    \E w \in Workers :
        /\ call[w].op = "sync_to_core" /\ call[w].pc = "done"
        /\ call[w].net = "timeout" /\ call[w].delivered
        /\ call[w].sent = 1
        /\ call[Remote(w)].op = "populate"

\* Whether the write of a finished mutation is in the database of its
\* producer: the row of a creation, the stock update_stock computed from
\* the stock of the run's start, the columns bulk_update set.
Written(c) ==
    IF c.op = "create_user"
    THEN \E i \in DOMAIN db.user :
            db.user[i].id = c.entity /\ db.user[i].username = c.input.username
    ELSE IF c.op = "create_product"
    THEN \E i \in DOMAIN db.product :
            db.product[i].id = c.entity /\ db.product[i].sku = c.input.sku
    ELSE IF c.op = "update_stock"
    THEN db.product[c.entity].stock_quantity
            = NewQuantity(Product[c.entity].stock_quantity, c.input)
    ELSE \A i \in DOMAIN db.product :
            db.product[i].id \in IdSet(c.input.product_ids)
            => /\ "is_featured" \in DOMAIN c.input.updates.m => db.product[i].is_featured
               /\ "status" \in DOMAIN c.input.updates.m
                     => db.product[i].status = c.input.updates.m.status.v

\* C22: a creation of a user or of a product, an update_stock or a
\* bulk_update whose last push failed (declined by the aggregator, or the
\* aggregator unavailable) has answered success, 201 or 200, and its write
\* is in the producer's database.
C22_PushFailureKeepsWrite ==
    \A w \in Workers :
        (call[w].op \in MutationOps /\ call[w].pc = "done"
            /\ call[w].seq >= 1 /\ ~call[w].result)
        => /\ call[w].status =
                 (IF call[w].op \in {"create_user", "create_product"}
                  THEN HTTP_201_CREATED ELSE HTTP_200_OK)
           /\ Written(call[w])

\* C22 witness: a bulk_update of two products whose last push the
\* aggregator declined with 404 has committed both rows.
C22_Witness ==
    \E w \in Workers :
        /\ call[w].op = "bulk_update" /\ call[w].pc = "done"
        /\ call[w].seq = 2
        /\ call[w].net = "answered" /\ call[w].details = HTTP_404_NOT_FOUND
        /\ db.product[1].is_featured /\ db.product[2].is_featured

\* C23: no request of a producer is out (requests.post called and not yet
\* returned) while the request holds a database transaction open.
C23_NoCallInTransaction ==
    \A w \in Workers : call[w].pc = "post" => ~call[w].tx

\* A push that was classified Success.
Succeeded(c) ==
    /\ c.op \in SyncOps /\ c.pc = "done"
    /\ IF c.op = "sync_to_core" THEN c.status = HTTP_200_OK ELSE c.result

Added(c, sid) ==
    {r \in store : /\ r.id > 1
                   /\ r.schema = c.schema
                   /\ r.source_service = c.service
                   /\ r.source_id = sid}

\* The push of c was accepted: the aggregator answered it 201.
Accepted(w) ==
    /\ call[w].delivered
    /\ call[Remote(w)].op = "populate"
    /\ call[Remote(w)].status = HTTP_201_CREATED

\* C26 as stated: once a push has ended, the records added for each pushed
\* entity are as many as the pushes classified Success: one after a
\* Success, none otherwise.
C26_RecordsEqualSuccesses ==
    \A w \in Workers :
        (call[w].op \in SyncOps /\ call[w].pc = "done" /\ call[w].seq = 1)
        => \A i \in DOMAIN call[w].body.data.items :
              Cardinality(Added(call[w], call[w].body.data.items[i].m.id.v))
                 = (IF Succeeded(call[w]) THEN 1 ELSE 0)

\* C26: no step takes a record out of the store or changes one, so a push
\* adds to the records of earlier pushes of the same entity; and the
\* records added for each pushed entity are as many as the pushes the
\* aggregator accepted (answered 201): one once it has accepted the push,
\* none before or otherwise, whatever the producer made of the answer.
C26_AppendOnly ==
    [][/\ store \subseteq store'
       /\ \A w \in Workers :
             (call'[w].op \in SyncOps /\ call'[w].seq = 1)
             => \A i \in DOMAIN call'[w].body.data.items :
                   Cardinality(Added(call[w], call[w].body.data.items[i].m.id.v))'
                      = (IF Accepted(w)' THEN 1 ELSE 0)]_vars

\* C26 witness: user 1 was pushed with the record of an earlier push of
\* user 1 in the schema; the aggregator accepted, and both records are
\* there, while the producer timed out and reports no Success.
C26_Witness ==
    \E w \in Workers :
        /\ call[w].op = "sync_single" /\ call[w].pc = "done"
        /\ call[w].net = "timeout" /\ Accepted(w)
        /\ Cardinality({r \in store : r.schema = 1 /\ r.source_id = "1"
                                        /\ r.source_service = "user_service"}) = 2

\* The step in which request w reads the stock of its product, in the
\* serializer or in the view, and finds less than it is to subtract.
ReadsTooLittle(w) ==
    /\ \/ call[w].pc = "idle" /\ call'[w].op = "update_stock"
       \/ call[w].pc = "valid" /\ call'[w].pc # "valid"
    /\ call'[w].input.operation = "SUBTRACT"
    /\ call'[w].input.quantity >= 0
    /\ call'[w].entity \in DOMAIN db.product
    /\ call'[w].input.quantity > db.product[call'[w].entity].stock_quantity

\* C27: no step of update_stock requests, however interleaved, leaves a
\* product with a negative stock_quantity; and a request that reads a stock
\* smaller than the quantity it is to subtract ends there with 400, writes
\* nothing and has pushed nothing.
C27_StockNeverNegative ==
    [][/\ \A i \in DOMAIN db'.product : db'.product[i].stock_quantity >= 0
       /\ \A w \in Workers :
             ReadsTooLittle(w)
             => /\ call'[w].pc = "done"
                /\ call'[w].status = HTTP_400_BAD_REQUEST
                /\ db' = db
                /\ call'[w].seq = 0]_vars

\* C27 witness: two requests subtract 2 from the 3 of product 1; one
\* succeeded and the other was refused with 400, and the stock is 1.
C27_Witness ==
    /\ call[1].op = "update_stock" /\ call[2].op = "update_stock"
    /\ call[1].pc = "done" /\ call[2].pc = "done"
    /\ call[1].input = [product_id |-> 1, operation |-> "SUBTRACT", quantity |-> 2]
    /\ call[2].input = call[1].input
    /\ call[1].status = HTTP_200_OK
    /\ call[2].status = HTTP_400_BAD_REQUEST /\ call[2].seq = 0
    /\ db.product[1].stock_quantity = 1

\* C28 as stated: when two update_stock requests on the same product have
\* both answered 200, the stock is the initial stock with both changes
\* applied, in one order or the other.
C28_BothTakeEffect ==
    (/\ call[1].op = "update_stock" /\ call[2].op = "update_stock"
     /\ call[1].pc = "done" /\ call[2].pc = "done"
     /\ call[1].status = HTTP_200_OK /\ call[2].status = HTTP_200_OK
     /\ call[1].entity = call[2].entity)
    => LET s0 == Product[call[1].entity].stock_quantity
           a == call[1].input
           b == call[2].input
       IN  db.product[call[1].entity].stock_quantity
              \in {NewQuantity(NewQuantity(s0, a), b), NewQuantity(NewQuantity(s0, b), a)}

\* The primary images of a product.
Primaries(product) ==
    {i \in DOMAIN db.image : db.image[i].product = product /\ db.image[i].is_primary}

\* C29: whatever sequence of image creations, image updates and set_primary
\* calls has run, no product has more than one primary image; and when
\* set_primary has answered for an image, that image is the one primary
\* image of its product.
C29_OnePrimary ==
    /\ \A i \in DOMAIN db.image : Cardinality(Primaries(db.image[i].product)) <= 1
    /\ \A w \in Workers :
          (call[w].op = "set_primary" /\ call[w].pc = "done"
              /\ call[w].status = HTTP_200_OK)
          => Primaries(db.image[call[w].entity].product) = {call[w].entity}

\* C29 witness: set_primary has answered for image 2 of product 1, whose
\* primary image was image 1: image 2 is primary and image 1 no longer.
C29_Witness ==
    /\ call[1].op = "set_primary" /\ call[1].pc = "done" /\ call[1].entity = 2
    /\ ProductImage[1].is_primary /\ ProductImage[1].product = ProductImage[2].product
    /\ db.image[1].product = db.image[2].product
    /\ ~db.image[1].is_primary
    /\ db.image[2].is_primary

\* C30 as stated: whatever creations and updates of categories have run,
\* get_full_path returns for every category, and so the canonical record
\* of every product, which holds the full path of its category, is built.
C30_FullPathReturns ==
    /\ \A i \in DOMAIN db.category : ReturnsIn(db.category, i, Len(db.category))
    /\ \A i \in DOMAIN db.product :
          ReturnsIn(db.category, db.product[i].category, Len(db.category))

====
